---- MODULE Spec2Model ----
(***************************************************************************)
(* The authorization core of the educational SaaS API: JWT verification,   *)
(* the authenticate / tenant / ABAC middleware chain, and the auth service *)
(* flows (register, login) over the relational store.                      *)
(*                                                                         *)
(* A middleware is modelled as an operator from (request, store, ...) to   *)
(* an outcome: the response it sends (status 0 = none), whether it calls   *)
(* next, the request it leaves, the audit events it logs and the queries   *)
(* it issues.  The action of the same name applies that outcome.           *)
(***************************************************************************)
EXTENDS Integers, Sequences, FiniteSets, TLC

VARIABLES
    db,      \* the relational store (committed rows)
    env,     \* the validated environment (secrets, NODE_ENV)
    clock,   \* the current time, in token-lifetime units
    req,     \* the Express request under way
    res,     \* the responses sent for it, in order
    last,    \* the last handler run: name, arguments, what it saw and did
    procs,   \* the service calls in flight (register / login), per client
    issued   \* the token pairs handed out to clients so far

vars == <<db, env, clock, req, res, last, procs, issued>>

-----------------------------------------------------------------------------
(* Values *)

NULL == "<null>"

Truthy(s) == s # NULL /\ s # ""

None == {}

Some(x) == {x}

The(s) == CHOOSE x \in s : TRUE

HTTP_OK == 200

HTTP_CREATED == 201

HTTP_BAD_REQUEST == 400

HTTP_UNAUTHORIZED == 401

HTTP_FORBIDDEN == 403

HTTP_NOT_FOUND == 404

HTTP_CONFLICT == 409

HTTP_UNPROCESSABLE_ENTITY == 422

HTTP_INTERNAL_SERVER_ERROR == 500

NoResponse == 0

-----------------------------------------------------------------------------
(* The store.  A table is a set of rows; UserRole is a sequence, because   *)
(* the order in which a user's assignments come back decides "the first".  *)

EmptyDb ==
    [ users |-> {}, userRoles |-> <<>>, roles |-> {}, institutions |-> {},
      plans |-> {}, students |-> {}, teachers |-> {}, tutorProfiles |-> {},
      careers |-> {}, courses |-> {}, subjects |-> {},
      virtualClassrooms |-> {}, certificates |-> {} ]

\* prisma.<model>.findUnique({ where: { id } }): the row, or none
findUniqueById(table, id) == { r \in table : r.id = id }

\* prisma.user.findUnique({ where: { email } })
findUserByEmail(d, email) == { u \in d.users : u.email = email }

\* include: { userRoles: { include: { role: true } } }
userRolesOf(d, userId) ==
    LET mine == SelectSeq(d.userRoles, LAMBDA ur : ur.userId = userId)
    IN  [ i \in 1..Len(mine) |->
            [ roleId    |-> mine[i].roleId,
              isPrimary |-> mine[i].isPrimary,
              role      |-> The(findUniqueById(d.roles, mine[i].roleId)) ] ]

\* (mutant: the institution row comes from a copy made while it was active)
institutionOf_stale(d, user) ==
    { [i EXCEPT !.status = "active"]
      : i \in findUniqueById(d.institutions, user.institutionId) }

\* include: { institution: { select: { id, status } } }
institutionOf(d, user) == findUniqueById(d.institutions, user.institutionId)

\* (mutant: always the first assignment)
activeRoleOf_first(urs) == IF Len(urs) > 0 THEN Some(urs[1]) ELSE None

\* userRoles.find(ur => ur.isPrimary) || userRoles[0]
activeRoleOf(urs) ==
    LET prim == { i \in 1..Len(urs) : urs[i].isPrimary }
    IN  IF prim # {}
        THEN Some(urs[CHOOSE i \in prim : \A j \in prim : i <= j])
        ELSE IF Len(urs) > 0 THEN Some(urs[1]) ELSE None

-----------------------------------------------------------------------------
(* JSON Web Tokens.  A token string is a sequence of atoms; a signed JWT   *)
(* is one atom carrying the key it was signed with, issuer, audience,      *)
(* expiry and payload.  A header is a sequence of atoms, SP the space.     *)

SP == [c |-> " "]

Word(w) == [c |-> w]

JwtAtom(t) == [jwt |-> t]

ISSUER == "educational-saas-api"

AUDIENCE == "educational-saas-client"

IsJwtString(s) == Len(s) = 1 /\ DOMAIN s[1] = {"jwt"}

\* String.prototype.split(' ')
RECURSIVE splitParts(_, _)
splitParts(s, parts) ==
    IF s = <<>> THEN parts
    ELSE IF Head(s) = SP
         THEN splitParts(Tail(s), Append(parts, <<>>))
         ELSE splitParts(Tail(s),
                 [parts EXCEPT ![Len(parts)] = Append(parts[Len(parts)], Head(s))])

split(s) == splitParts(s, << <<>> >>)

\* (mutant: the scheme is not looked at)
extractTokenFromHeader_anyScheme(authHeader) ==
    IF authHeader = <<>> THEN None
    ELSE LET parts == split(authHeader)
         IN  IF Len(parts) # 2 THEN None ELSE Some(parts[2])

\* null, or the second part of "Bearer <token>"
extractTokenFromHeader(authHeader) ==
    IF authHeader = <<>> THEN None
    ELSE LET parts == split(authHeader)
         IN  IF Len(parts) # 2 \/ parts[1] # <<Word("Bearer")>>
             THEN None
             ELSE Some(parts[2])

\* !token
NoToken(tok) == tok = None \/ The(tok) = <<>>

\* jwt.sign(payload, key, { expiresIn, issuer, audience }): the token carries
\* its claims and a signature, made with the key over exactly those claims
jwtSign(key, iss, aud, exp, payload) ==
    [ key |-> key, iss |-> iss, aud |-> aud, exp |-> exp, payload |-> payload,
      signed |-> [iss |-> iss, aud |-> aud, exp |-> exp, payload |-> payload] ]

\* the signature was made with the secret over the claims the token carries
signatureValid(t, secret) ==
    /\ t.key = secret
    /\ t.signed = [iss |-> t.iss, aud |-> t.aud, exp |-> t.exp, payload |-> t.payload]

\* (mutant: a token is refused one tick before its expiry)
jwtVerify_early(tokenString, secret, now) ==
    IF ~IsJwtString(tokenString)
    THEN [ok |-> FALSE, expired |-> FALSE, payload |-> None]
    ELSE LET t == tokenString[1].jwt
         IN  IF ~signatureValid(t, secret)
             THEN [ok |-> FALSE, expired |-> FALSE, payload |-> None]
             ELSE IF now + 1 >= t.exp
             THEN [ok |-> FALSE, expired |-> TRUE, payload |-> None]
             ELSE IF t.aud # AUDIENCE \/ t.iss # ISSUER
             THEN [ok |-> FALSE, expired |-> FALSE, payload |-> None]
             ELSE [ok |-> TRUE, expired |-> FALSE, payload |-> Some(t.payload)]

\* jwt.verify(token, secret, { issuer, audience }): signature, then expiry,
\* then audience and issuer
jwtVerify(tokenString, secret, now) ==
    IF ~IsJwtString(tokenString)
    THEN [ok |-> FALSE, expired |-> FALSE, payload |-> None]
    ELSE LET t == tokenString[1].jwt
         IN  IF ~signatureValid(t, secret)
             THEN [ok |-> FALSE, expired |-> FALSE, payload |-> None]
             ELSE IF now >= t.exp
             THEN [ok |-> FALSE, expired |-> TRUE, payload |-> None]
             ELSE IF t.aud # AUDIENCE \/ t.iss # ISSUER
             THEN [ok |-> FALSE, expired |-> FALSE, payload |-> None]
             ELSE [ok |-> TRUE, expired |-> FALSE, payload |-> Some(t.payload)]

\* (mutant: an expired token is reported like an invalid one)
verifyAccessToken_oneError(tokenString, e, now) ==
    LET v == jwtVerify(tokenString, e.JWT_SECRET, now)
    IN  IF v.ok THEN [ok |-> TRUE, error |-> "", decoded |-> v.payload]
        ELSE [ok |-> FALSE, error |-> "Token invalido", decoded |-> None]

verifyAccessToken(tokenString, e, now) ==
    LET v == jwtVerify(tokenString, e.JWT_SECRET, now)
    IN  IF v.ok THEN [ok |-> TRUE, error |-> "", decoded |-> v.payload]
        ELSE IF v.expired
        THEN [ok |-> FALSE, error |-> "Token expirado", decoded |-> None]
        ELSE [ok |-> FALSE, error |-> "Token invalido", decoded |-> None]

-----------------------------------------------------------------------------
(* Outcomes of a middleware *)

\* (mutant: the middleware answers and still calls next)
Respond_andNext(rq, status, message, events, queries) ==
    [ status |-> status, message |-> message, next |-> TRUE, req |-> rq,
      events |-> events, queries |-> queries ]

\* xxxResponse(res, message); return
Respond(rq, status, message, events, queries) ==
    [ status |-> status, message |-> message, next |-> FALSE, req |-> rq,
      events |-> events, queries |-> queries ]

CallNext(rq, events, queries) ==
    [ status |-> NoResponse, message |-> "", next |-> TRUE, req |-> rq,
      events |-> events, queries |-> queries ]

FreshRequest(authorization, params, query) ==
    [ headers |-> [authorization |-> authorization],
      params  |-> params,
      query   |-> query,
      user    |-> None,
      token   |-> None,
      institutionId |-> NULL,
      tenant  |-> None,
      abac    |-> None ]

NoParams == [institutionId |-> NULL, id |-> NULL]

NoQuery == [institutionId |-> NULL]

NoCall == [ op |-> "none", args |-> <<>>, status |-> NoResponse,
            message |-> "", next |-> FALSE, events |-> <<>>,
            queries |-> <<>>, pre |-> FreshRequest(<<>>, NoParams, NoQuery),
            db |-> EmptyDb, error |-> None, data |-> None ]

\* run one middleware of the chain on the request: allowed while no response
\* has been sent
Apply(op, args, o) ==
    /\ res = <<>>
    /\ req' = o.req
    /\ res' = IF o.status = NoResponse THEN res
              ELSE Append(res, [status |-> o.status, message |-> o.message])
    /\ last' = [ op |-> op, args |-> args, status |-> o.status,
                 message |-> o.message, next |-> o.next, events |-> o.events,
                 queries |-> o.queries, pre |-> req, db |-> db,
                 error |-> None, data |-> None ]
    /\ UNCHANGED <<db, env, clock, procs, issued>>

-----------------------------------------------------------------------------
(* auth.middleware.ts *)

\* the user row exists: active?, institution active?, a role?, then success
\* (mutant: the institution is looked at before the user's own isActive)
authenticateFound_institutionFirst(rq, d, token, user, q) ==
    LET inst == institutionOf(d, user)
        urs  == userRolesOf(d, user.id)
        activeRole == activeRoleOf(urs)
    IN
    IF inst = None \/ The(inst).status # "active"
    THEN Respond(rq, HTTP_FORBIDDEN, "Institucion inactiva",
                 <<"institution_inactive">>, q)
    ELSE IF ~user.isActive
    THEN Respond(rq, HTTP_UNAUTHORIZED, "Usuario inactivo",
                 <<"user_inactive">>, q)
    ELSE IF activeRole = None
    THEN Respond(rq, HTTP_FORBIDDEN, "Usuario sin roles activos",
                 <<"no_active_role">>, q)
    ELSE
    CallNext([rq EXCEPT
                !.user = Some([ id            |-> user.id,
                                email         |-> user.email,
                                institutionId |-> user.institutionId,
                                roleId        |-> The(activeRole).roleId,
                                roleName      |-> The(activeRole).role.name,
                                isActive      |-> user.isActive,
                                attributes    |-> user.attributes ]),
                !.token = token],
             <<"auth_success">>, q)

authenticateFound(rq, d, token, user, q) ==
    LET inst == institutionOf(d, user)
        urs  == userRolesOf(d, user.id)
        activeRole == activeRoleOf(urs)
    IN
    IF ~user.isActive
    THEN Respond(rq, HTTP_UNAUTHORIZED, "Usuario inactivo",
                 <<"user_inactive">>, q)
    ELSE IF inst = None \/ The(inst).status # "active"
    THEN Respond(rq, HTTP_FORBIDDEN, "Institucion inactiva",
                 <<"institution_inactive">>, q)
    ELSE IF activeRole = None
    THEN Respond(rq, HTTP_FORBIDDEN, "Usuario sin roles activos",
                 <<"no_active_role">>, q)
    ELSE
    CallNext([rq EXCEPT
                !.user = Some([ id            |-> user.id,
                                email         |-> user.email,
                                institutionId |-> user.institutionId,
                                roleId        |-> The(activeRole).roleId,
                                roleName      |-> The(activeRole).role.name,
                                isActive      |-> user.isActive,
                                attributes    |-> user.attributes ]),
                !.token = token],
             <<"auth_success">>, q)

authenticate(rq, d, e, now) ==
    LET token == extractTokenFromHeader(rq.headers.authorization) IN
    IF NoToken(token)
    THEN Respond(rq, HTTP_UNAUTHORIZED, "Token de acceso requerido",
                 <<"missing_token">>, <<>>)
    ELSE
    LET v == verifyAccessToken(The(token), e, now) IN
    IF ~v.ok
    THEN Respond(rq, HTTP_UNAUTHORIZED, v.error, <<"invalid_token">>, <<>>)
    ELSE
    LET decoded == The(v.decoded)
        found   == findUniqueById(d.users, decoded.userId)
        q       == <<"user.findUnique">>
    IN
    IF found = None
    THEN Respond(rq, HTTP_UNAUTHORIZED, "Usuario no encontrado",
                 <<"user_not_found">>, q)
    ELSE authenticateFound(rq, d, token, The(found), q)

optionalAuthenticate(rq, d, e, now) ==
    LET token == extractTokenFromHeader(rq.headers.authorization) IN
    IF NoToken(token)
    THEN CallNext(rq, <<>>, <<>>)
    ELSE authenticate(rq, d, e, now)

Authenticate ==
    Apply("authenticate", <<>>, authenticate(req, db, env, clock))

OptionalAuthenticate ==
    Apply("optionalAuthenticate", <<>>, optionalAuthenticate(req, db, env, clock))

-----------------------------------------------------------------------------
(* tenant.middleware.ts *)

setTenantContext(rq) ==
    IF rq.user = None
    THEN Respond(rq, HTTP_BAD_REQUEST,
                 "Usuario no autenticado para establecer contexto de tenant",
                 <<>>, <<>>)
    ELSE CallNext([rq EXCEPT !.institutionId = The(rq.user).institutionId],
                  <<>>, <<>>)

\* (mutant: every requested institution counts as the principal's own)
belongsToInstitution_any(user, requestedInstitutionId) == TRUE

\* req.user.institutionId !== requestedInstitutionId, negated
belongsToInstitution(user, requestedInstitutionId) ==
    user.institutionId = requestedInstitutionId

validateTenantAccess(rq, d) ==
    IF rq.user = None
    THEN Respond(rq, HTTP_BAD_REQUEST, "Usuario no autenticado", <<>>, <<>>)
    ELSE
    LET user == The(rq.user)
        requestedInstitutionId ==
            IF Truthy(rq.params.institutionId) THEN rq.params.institutionId
            ELSE user.institutionId
    IN
    IF ~Truthy(requestedInstitutionId)
    THEN Respond(rq, HTTP_BAD_REQUEST, "ID de institucion requerido", <<>>, <<>>)
    ELSE IF ~belongsToInstitution(user, requestedInstitutionId)
    THEN Respond(rq, HTTP_FORBIDDEN, "Acceso denegado a esta institucion",
                 <<"tenant_access_denied">>, <<>>)
    ELSE
    LET institution == findUniqueById(d.institutions, requestedInstitutionId)
        q == <<"institution.findUnique">>
    IN
    IF institution = None
    THEN Respond(rq, HTTP_BAD_REQUEST, "Institucion no encontrada", <<>>, q)
    ELSE IF The(institution).status # "active"
    THEN Respond(rq, HTTP_FORBIDDEN, "Institucion no activa", <<>>, q)
    ELSE CallNext([rq EXCEPT
                     !.institutionId = The(institution).id,
                     !.tenant = Some([ id     |-> The(institution).id,
                                       name   |-> The(institution).name,
                                       slug   |-> The(institution).slug,
                                       status |-> IF The(institution).status = NULL
                                                  THEN "inactive"
                                                  ELSE The(institution).status,
                                       planId |-> The(institution).planId ])],
                  <<>>, q)

\* the keys of modelMap
ResourceModels ==
    {"student", "teacher", "course", "career", "virtualClassroom", "subject"}

\* the tables that have an "institutionId" column
ModelsWithInstitutionId == {"student", "career"}

TableOf(d, resourceModel) ==
    CASE resourceModel = "student" -> d.students
      [] resourceModel = "teacher" -> d.teachers
      [] resourceModel = "course" -> d.courses
      [] resourceModel = "career" -> d.careers
      [] resourceModel = "virtualClassroom" -> d.virtualClassrooms
      [] resourceModel = "subject" -> d.subjects

\* model.findUnique({ where: { id }, select: { id: true, institutionId: true } }):
\* selecting a field the model does not have is rejected by the client (it throws)
findUniqueSelectInstitutionId(d, resourceModel, resourceId) ==
    IF resourceModel \notin ModelsWithInstitutionId
    THEN [threw |-> TRUE, row |-> None]
    ELSE [threw |-> FALSE, row |-> findUniqueById(TableOf(d, resourceModel), resourceId)]

validateResourceOwnership(resourceModel, resourceIdParam, rq, d) ==
    IF rq.user = None \/ ~Truthy(rq.institutionId)
    THEN Respond(rq, HTTP_BAD_REQUEST,
                 "Contexto de autenticacion/tenant requerido", <<>>, <<>>)
    ELSE
    LET resourceId == rq.params[resourceIdParam] IN
    IF ~Truthy(resourceId)
    THEN Respond(rq, HTTP_BAD_REQUEST, "Parametro requerido", <<>>, <<>>)
    ELSE IF resourceModel \notin ResourceModels
    THEN Respond(rq, HTTP_BAD_REQUEST, "Modelo no soportado", <<>>, <<>>)
    ELSE
    LET found == findUniqueSelectInstitutionId(d, resourceModel, resourceId)
        q == <<resourceModel \o ".findUnique">>
    IN
    IF found.threw
    THEN Respond(rq, HTTP_FORBIDDEN, "Error validando propiedad del recurso",
                 <<"resource_validation_error">>, q)
    ELSE IF found.row = None
    THEN Respond(rq, HTTP_BAD_REQUEST, "Recurso no encontrado", <<>>, q)
    ELSE IF The(found.row).institutionId # rq.institutionId
    THEN Respond(rq, HTTP_FORBIDDEN, "Acceso denegado a este recurso",
                 <<"resource_access_denied">>, q)
    ELSE CallNext(rq, <<>>, q)

\* model.count({ where: { id: { in: ids }, institutionId } }): the rows counted,
\* or a failure (of the database, or of a model without the column)
countIdInInstitution(d, model, ids, institutionId, fails) ==
    IF fails \/ model \notin ModelsWithInstitutionId
    THEN [threw |-> TRUE, count |-> 0]
    ELSE [threw |-> FALSE,
          count |-> Cardinality({ r \in TableOf(d, model) :
                                    /\ \E k \in 1..Len(ids) : ids[k] = r.id
                                    /\ r.institutionId = institutionId })]

\* validateBulkOwnership(model, ids, institutionId)
validateBulkOwnership(d, model, ids, institutionId, fails) ==
    LET q == countIdInInstitution(d, model, ids, institutionId, fails)
    IN  IF q.threw THEN FALSE ELSE q.count = Len(ids)

SetTenantContext == Apply("setTenantContext", <<>>, setTenantContext(req))

ValidateTenantAccess ==
    Apply("validateTenantAccess", <<>>, validateTenantAccess(req, db))

ValidateResourceOwnership ==
    \E m \in ResourceModels \cup {"grade"} :
        Apply("validateResourceOwnership", <<m, "id">>,
              validateResourceOwnership(m, "id", req, db))

-----------------------------------------------------------------------------
(* abac.middleware.ts *)

\* (mutant: a tenant without plan gets a free plan)
planOf_free(d, planId) ==
    IF Truthy(planId) THEN findUniqueById(d.plans, planId)
    ELSE Some([ id |-> "free", slug |-> "free", features |-> [reports |-> TRUE],
                studentLimit |-> 1, teacherLimit |-> 1, adminLimit |-> 1,
                courseLimit |-> 1, aiTeacherCallsMonthly |-> 1,
                aiStudentMinutesMonthly |-> 1, certificateMonthly |-> 1,
                virtualClassroomLimit |-> 1, storageMB |-> 1 ])

\* let plan = null; if (req.tenant.planId) plan = await prisma.plan.findUnique(...)
planOf(d, planId) ==
    IF Truthy(planId) THEN findUniqueById(d.plans, planId) ELSE None

setupABACContext(rq, d) ==
    IF rq.user = None \/ rq.tenant = None
    THEN Respond(rq, HTTP_BAD_REQUEST,
                 "Contexto de usuario/tenant requerido para ABAC", <<>>, <<>>)
    ELSE
    LET user   == The(rq.user)
        tenant == The(rq.tenant)
        plan   == planOf(d, tenant.planId)
        q      == IF Truthy(tenant.planId) THEN <<"plan.findUnique">> ELSE <<>>
    IN  CallNext([rq EXCEPT !.abac =
                    Some([ user |-> [ id |-> user.id,
                                      roleId |-> user.roleId,
                                      roleName |-> user.roleName,
                                      institutionId |-> user.institutionId,
                                      attributes |-> user.attributes ],
                           institution |-> [ id |-> tenant.id,
                                             planId |-> tenant.planId,
                                             status |-> tenant.status ],
                           plan |-> plan ])],
                 <<>>, q)

\* the calendar month, in clock ticks
TicksPerMonth == 4

\* new Date(); setDate(1); setHours(0, 0, 0, 0)
startOfMonth(now) == now - (now % TicksPerMonth)

\* prisma.student.count({ where: { institutionId } })
countStudents(d, institutionId) ==
    Cardinality({ s \in d.students : s.institutionId = institutionId })

\* prisma.teacher.count({ where: { user: { institutionId } } })
countTeachers(d, institutionId) ==
    Cardinality({ t \in d.teachers :
                    \E u \in d.users : u.id = t.userId /\ u.institutionId = institutionId })

\* prisma.course.count({ where: { career: { institutionId } } })
countCourses(d, institutionId) ==
    Cardinality({ c \in d.courses :
                    \E ca \in d.careers : ca.id = c.careerId /\ ca.institutionId = institutionId })

\* prisma.virtualClassroom.count({ where: { subject: { course: { career: { institutionId } } } } })
countVirtualClassrooms(d, institutionId) ==
    Cardinality({ v \in d.virtualClassrooms :
                    \E su \in d.subjects : \E c \in d.courses : \E ca \in d.careers :
                        /\ su.id = v.subjectId /\ c.id = su.courseId
                        /\ ca.id = c.careerId /\ ca.institutionId = institutionId })

\* prisma.certificate.count({ where: { student: { institutionId }, issuedAt: { gte: startOfMonth } } })
countCertificates(d, institutionId, now) ==
    Cardinality({ c \in d.certificates :
                    /\ \E st \in d.students :
                          st.id = c.studentId /\ st.institutionId = institutionId
                    /\ c.issuedAt >= startOfMonth(now) })

\* !req.abac?.plan
noPlan(rq) == rq.abac = None \/ The(rq.abac).plan = None

\* (mutant: a feature without entry in the map is granted)
featureEnabled_lenient(features, feature) ==
    feature \notin DOMAIN features \/ features[feature] = TRUE

\* the resource kinds the switch of checkPlanLimits knows
GatedResources == {"student", "teacher", "course", "virtualClassroom", "certificate"}

\* (mutant: the limit itself may still be reached and passed once)
limitExceeded_strict(limit, currentCount) == limit # -1 /\ currentCount > limit

\* (mutant: `limit && ...`, a limit of 0 counts as none)
limitExceeded_zeroIsNone(limit, currentCount) ==
    limit # -1 /\ limit # 0 /\ currentCount >= limit

\* limit !== -1 && currentCount >= limit
limitExceeded(limit, currentCount) == limit # -1 /\ currentCount >= limit

checkPlanLimits(resourceType, action, rq, d, now) ==
    IF action # "create" THEN CallNext(rq, <<>>, <<>>)
    ELSE IF noPlan(rq)
    THEN Respond(rq, HTTP_FORBIDDEN, "Plan requerido para esta operacion", <<>>, <<>>)
    ELSE IF resourceType \notin GatedResources
    THEN CallNext(rq, <<>>, <<>>)
    ELSE
    LET plan == The(The(rq.abac).plan)
        institution == The(rq.abac).institution
        currentCount ==
            CASE resourceType = "student" -> countStudents(d, institution.id)
              [] resourceType = "teacher" -> countTeachers(d, institution.id)
              [] resourceType = "course" -> countCourses(d, institution.id)
              [] resourceType = "virtualClassroom" ->
                     countVirtualClassrooms(d, institution.id)
              [] resourceType = "certificate" ->
                     countCertificates(d, institution.id, now)
        limit ==
            CASE resourceType = "student" -> plan.studentLimit
              [] resourceType = "teacher" -> plan.teacherLimit
              [] resourceType = "course" -> plan.courseLimit
              [] resourceType = "virtualClassroom" -> plan.virtualClassroomLimit
              [] resourceType = "certificate" -> plan.certificateMonthly
        q == <<resourceType \o ".count">>
    IN
    IF limitExceeded(limit, currentCount)
    THEN Respond(rq, HTTP_FORBIDDEN, "Limite del plan excedido",
                 <<"plan_limit_exceeded">>, q)
    ELSE CallNext(rq, <<>>, q)

\* checkRolePermissions(allowedRoles, resource)
checkRolePermissions(allowedRoles, rq) ==
    IF rq.abac = None
    THEN Respond(rq, HTTP_BAD_REQUEST, "Contexto ABAC requerido", <<>>, <<>>)
    ELSE IF The(rq.abac).user.roleName \notin allowedRoles
    THEN Respond(rq, HTTP_FORBIDDEN, "Permisos de rol insuficientes",
                 <<"role_permission_denied">>, <<>>)
    ELSE CallNext(rq, <<>>, <<>>)

\* !features[feature]
featureEnabled(features, feature) ==
    feature \in DOMAIN features /\ features[feature] = TRUE

\* checkPlanFeature(feature)
checkPlanFeature(feature, rq) ==
    IF noPlan(rq)
    THEN Respond(rq, HTTP_FORBIDDEN, "Plan requerido para esta funcionalidad", <<>>, <<>>)
    ELSE
    LET plan == The(The(rq.abac).plan)
    IN
    IF feature = "ai_teacher" /\ plan.aiTeacherCallsMonthly <= 0
    THEN Respond(rq, HTTP_FORBIDDEN,
                 "Funcionalidad de IA para docentes no disponible en su plan", <<>>, <<>>)
    ELSE IF feature = "ai_student" /\ plan.aiStudentMinutesMonthly <= 0
    THEN Respond(rq, HTTP_FORBIDDEN,
                 "Funcionalidad de IA para estudiantes no disponible en su plan", <<>>, <<>>)
    ELSE IF feature = "certificates" /\ plan.certificateMonthly <= 0
    THEN Respond(rq, HTTP_FORBIDDEN,
                 "Generacion de certificados no disponible en su plan", <<>>, <<>>)
    ELSE IF /\ feature \notin {"ai_teacher", "ai_student", "certificates"}
            /\ ~featureEnabled(plan.features, feature)
    THEN Respond(rq, HTTP_FORBIDDEN, "Funcionalidad no disponible en su plan", <<>>, <<>>)
    ELSE CallNext(rq, <<>>, <<>>)

Features == {"ai_teacher", "ai_student", "certificates", "reports", "sso", "export"}

CheckPlanFeature ==
    \E f \in Features :
        Apply("checkPlanFeature", <<f>>, checkPlanFeature(f, req))

\* (mutant: a create is allowed with or without plan)
evaluateAccess_anyCreate(context, resourceType, action) ==
    \/ context.user.roleName = "ADMIN"
    \/ action = "create"
    \/ resourceType = "student" /\ context.user.roleName \in {"ADMIN", "SECRETARY", "DIRECTOR"}
    \/ resourceType = "teacher" /\ context.user.roleName \in {"ADMIN", "DIRECTOR"}
    \/ resourceType = "grade" /\ context.user.roleName \in {"ADMIN", "DIRECTOR", "TEACHER"}

\* evaluateAccess(context, resourceType, action)
evaluateAccess(context, resourceType, action) ==
    IF context.user.roleName = "ADMIN" THEN TRUE
    ELSE IF action = "create" /\ context.plan # None THEN TRUE
    ELSE CASE resourceType = "student" ->
                context.user.roleName \in {"ADMIN", "SECRETARY", "DIRECTOR"}
           [] resourceType = "teacher" ->
                context.user.roleName \in {"ADMIN", "DIRECTOR"}
           [] resourceType = "grade" ->
                context.user.roleName \in {"ADMIN", "DIRECTOR", "TEACHER"}
           [] OTHER -> FALSE

\* the outcome of a chain of middlewares so far
ChainStart(rq) ==
    [ req |-> rq, next |-> TRUE, responses |-> <<>>, events |-> <<>>, queries |-> <<>> ]

\* (mutant: the next middleware runs even after a response)
andThen_regardless(o, n) ==
    [ req |-> n.req, next |-> n.next,
      responses |-> IF n.status = NoResponse THEN o.responses
                    ELSE Append(o.responses, [status |-> n.status, message |-> n.message]),
      events |-> o.events \o n.events,
      queries |-> o.queries \o n.queries ]

\* Express runs the next middleware of the array only if this one called next;
\* n is the outcome of that middleware on the request o left behind
andThen(o, n) ==
    IF ~o.next THEN o
    ELSE [ req |-> n.req, next |-> n.next,
           responses |-> IF n.status = NoResponse THEN o.responses
                         ELSE Append(o.responses,
                                     [status |-> n.status, message |-> n.message]),
           events |-> o.events \o n.events,
           queries |-> o.queries \o n.queries ]

\* requireABACPermission(resourceType, action, allowedRoles, requiredFeature?)
requireABACPermission(resourceType, action, allowedRoles, requiredFeature, rq, d, now) ==
    LET s0 == ChainStart(rq)
        s1 == andThen(s0, setupABACContext(s0.req, d))
        s2 == andThen(s1, checkRolePermissions(allowedRoles, s1.req))
        s3 == andThen(s2, checkPlanLimits(resourceType, action, s2.req, d, now))
    IN  IF Truthy(requiredFeature)
        THEN andThen(s3, checkPlanFeature(requiredFeature, s3.req))
        ELSE s3

\* run a chain of middlewares on the request
ApplyChain(op, args, o) ==
    /\ res = <<>>
    /\ req' = o.req
    /\ res' = o.responses
    /\ last' = [ op |-> op, args |-> args,
                 status |-> IF o.responses = <<>> THEN NoResponse
                            ELSE o.responses[1].status,
                 message |-> IF o.responses = <<>> THEN "" ELSE o.responses[1].message,
                 next |-> o.next, events |-> o.events, queries |-> o.queries,
                 pre |-> req, db |-> db, error |-> None, data |-> None ]
    /\ UNCHANGED <<db, env, clock, procs, issued>>

RequireABACPermission ==
    \E r \in {"student", "certificate", "grade"} : \E a \in {"create", "read"} :
    \E allowedRoles \in { {"ADMIN"}, {"ADMIN", "DIRECTOR", "TEACHER"} } :
    \E f \in {NULL, "certificates"} :
        ApplyChain("requireABACPermission", <<r, a, allowedRoles, f>>,
                   requireABACPermission(r, a, allowedRoles, f, req, db, clock))

Actions == {"create", "read", "update", "delete"}

SetupABACContext == Apply("setupABACContext", <<>>, setupABACContext(req, db))

CheckPlanLimits ==
    \E r \in GatedResources \cup {"grade"} : \E a \in Actions :
        Apply("checkPlanLimits", <<r, a>>, checkPlanLimits(r, a, req, db, clock))

-----------------------------------------------------------------------------
(* password.ts.  A password is a sequence of one-character strings. *)

UpperCase == << "A", "B", "C", "D", "E", "F", "G", "H", "I", "J", "K", "L", "M",
                "N", "O", "P", "Q", "R", "S", "T", "U", "V", "W", "X", "Y", "Z" >>

LowerCase == << "a", "b", "c", "d", "e", "f", "g", "h", "i", "j", "k", "l", "m",
                "n", "o", "p", "q", "r", "s", "t", "u", "v", "w", "x", "y", "z" >>

Digits == { "0", "1", "2", "3", "4", "5", "6", "7", "8", "9" }

\* [@$!%*?&]
SpecialChars == { "@", "$", "!", "%", "*", "?", "&" }

Range(f) == { f[i] : i \in DOMAIN f }

toLowerCase(s) ==
    [ i \in 1..Len(s) |->
        IF \E k \in 1..Len(UpperCase) : UpperCase[k] = s[i]
        THEN LowerCase[CHOOSE k \in 1..Len(UpperCase) : UpperCase[k] = s[i]]
        ELSE s[i] ]

\* pattern.test(s) for a literal pattern
includes(s, pat) ==
    \E i \in 1..(Len(s) - Len(pat) + 1) : SubSeq(s, i, i + Len(pat) - 1) = pat

minPasswordLength == 8

maxPasswordLength == 128

\* /123456/, /password/i, /qwerty/i, /admin/i, /letmein/i
hasCommonPattern(password) ==
    \/ includes(password, <<"1", "2", "3", "4", "5", "6">>)
    \/ \E pat \in { <<"p", "a", "s", "s", "w", "o", "r", "d">>,
                    <<"q", "w", "e", "r", "t", "y">>,
                    <<"a", "d", "m", "i", "n">>,
                    <<"l", "e", "t", "m", "e", "i", "n">> } :
          includes(toLowerCase(password), pat)

\* validatePassword(password) with requireStrong at its default, true
validatePassword(password) ==
    [ isValid |->
        /\ password # <<>>
        /\ Len(password) >= minPasswordLength
        /\ Len(password) <= maxPasswordLength
        /\ Range(password) \cap Range(UpperCase) # {}
        /\ Range(password) \cap Range(LowerCase) # {}
        /\ Range(password) \cap Digits # {}
        /\ Range(password) \cap SpecialChars # {}
        /\ ~hasCommonPattern(password) ]

\* bcrypt.hash: a thrown Error when the length is out of range
hashPassword(password) ==
    IF Len(password) < minPasswordLength \/ Len(password) > maxPasswordLength
    THEN [ok |-> FALSE, hash |-> None]
    ELSE [ok |-> TRUE, hash |-> Some([bcrypt |-> password])]

\* bcrypt.compare
verifyPassword(password, hash) ==
    /\ password # <<>>
    /\ hash # None
    /\ The(hash).bcrypt = password

-----------------------------------------------------------------------------
(* Errors, errorHandler and asyncHandler (error-handler.middleware.ts) *)

createAppError(message, statusCode) ==
    [ kind |-> "AppError", statusCode |-> statusCode, code |-> "", message |-> message ]

\* new Error(message): no statusCode
PlainError(message) ==
    [ kind |-> "Error", statusCode |-> 0, code |-> "", message |-> message ]

PrismaKnownError(code, message) ==
    [ kind |-> "PrismaClientKnownRequestError", statusCode |-> 0, code |-> code,
      message |-> message ]

isDevelopment(e) == e.NODE_ENV = "development"

handlePrismaError(error, e) ==
    CASE error.code = "P2002" -> createAppError("El recurso ya existe", HTTP_CONFLICT)
      [] error.code = "P2025" -> createAppError("Recurso no encontrado", HTTP_NOT_FOUND)
      [] error.code = "P2003" ->
             createAppError("Referencia invalida a otro recurso", HTTP_BAD_REQUEST)
      [] error.code = "P2014" ->
             createAppError("La operacion violaria una relacion requerida", HTTP_BAD_REQUEST)
      [] OTHER -> createAppError(IF isDevelopment(e) THEN error.message
                                 ELSE "Error de base de datos",
                                 HTTP_INTERNAL_SERVER_ERROR)

\* switch (statusCode): 400, 404 and 409 have a case, everything else is the default
errorStatus(statusCode) ==
    IF statusCode \in {HTTP_BAD_REQUEST, HTTP_NOT_FOUND, HTTP_CONFLICT}
    THEN statusCode
    ELSE HTTP_INTERNAL_SERVER_ERROR

\* the response errorHandler sends for an error
errorHandler(error, e) ==
    IF error.statusCode = 0 /\ error.kind = "ZodError"
    THEN [ status |-> HTTP_UNPROCESSABLE_ENTITY,
           message |-> "Errores de validacion en los datos" ]
    ELSE
    LET appError ==
            IF error.statusCode # 0 THEN error
            ELSE IF error.kind = "PrismaClientKnownRequestError"
            THEN handlePrismaError(error, e)
            ELSE IF error.kind = "PrismaClientValidationError"
            THEN createAppError(IF isDevelopment(e) THEN error.message
                                ELSE "Datos invalidos proporcionados", HTTP_BAD_REQUEST)
            ELSE createAppError(IF isDevelopment(e) THEN error.message
                                ELSE "Error interno del servidor",
                                HTTP_INTERNAL_SERVER_ERROR)
    IN  [ status |-> errorStatus(appError.statusCode), message |-> appError.message ]

\* the catch of a service function: an error with a statusCode is rethrown,
\* any other becomes a 500 AppError with the given message
serviceCatch(error, message) ==
    IF error.statusCode # 0 THEN error
    ELSE createAppError(message, HTTP_INTERNAL_SERVER_ERROR)

\* createValidationMiddleware: the 422 answer to a body the schema rejects
validationErrorResponse ==
    [ status |-> HTTP_UNPROCESSABLE_ENTITY,
      message |-> "Errores de validacion en los datos" ]

-----------------------------------------------------------------------------
(* Token generation (jwt.ts) *)

generateAccessToken(payload, e, now) ==
    << JwtAtom(jwtSign(e.JWT_SECRET, ISSUER, AUDIENCE,
                       now + e.JWT_EXPIRES_IN, payload)) >>

generateRefreshToken(payload, e, now) ==
    << JwtAtom(jwtSign(e.JWT_REFRESH_SECRET, ISSUER, AUDIENCE,
                       now + e.JWT_REFRESH_EXPIRES_IN, payload)) >>

generateTokenPair(userPayload, e, now) ==
    [ accessToken  |-> generateAccessToken(userPayload, e, now),
      refreshToken |-> generateRefreshToken(
                          [ userId |-> userPayload.userId,
                            institutionId |-> userPayload.institutionId ], e, now),
      expiresIn    |-> e.JWT_EXPIRES_IN,
      tokenType    |-> "Bearer" ]

verifyRefreshToken(tokenString, e, now) ==
    LET v == jwtVerify(tokenString, e.JWT_REFRESH_SECRET, now)
    IN  IF v.ok THEN [ok |-> TRUE, error |-> None, decoded |-> v.payload]
        ELSE IF v.expired
        THEN [ok |-> FALSE, error |-> Some(PlainError("Refresh token expirado")),
              decoded |-> None]
        ELSE [ok |-> FALSE, error |-> Some(PlainError("Refresh token invalido")),
              decoded |-> None]

-----------------------------------------------------------------------------
(* auth.service.ts: login and refresh; auth.controller.ts: their routes *)

Failure(error, events) ==
    [ ok |-> FALSE, error |-> Some(error), result |-> None, events |-> events ]

Success(result, events) ==
    [ ok |-> TRUE, error |-> None, result |-> Some(result), events |-> events ]

loginFailed(reason) == [event |-> "login_failed", reason |-> reason]

\* (mutant: the thrown message names the reason that is logged)
credentialsError_telling(reason) == createAppError(reason, HTTP_UNAUTHORIZED)

\* createAppError('Credenciales invalidas', 401), whatever the logged reason
credentialsError(reason) == createAppError("Credenciales invalidas", HTTP_UNAUTHORIZED)

\* loginUser up to its return or throw; the store it leaves is loginUserDb
loginUserTry(data, d, e, now) ==
    LET found == findUserByEmail(d, data.email)
    IN
    IF found = None
    THEN Failure(credentialsError("user_not_found"),
                 <<loginFailed("user_not_found")>>)
    ELSE
    LET user == The(found)
        inst == institutionOf(d, user)
        urs  == userRolesOf(d, user.id)
        primaryRole == activeRoleOf(urs)
    IN
    IF ~user.isActive
    THEN Failure(createAppError("Usuario inactivo", HTTP_UNAUTHORIZED),
                 <<loginFailed("user_inactive")>>)
    ELSE IF inst = None \/ The(inst).status # "active"
    THEN Failure(createAppError("Institucion inactiva", HTTP_FORBIDDEN),
                 <<loginFailed("institution_inactive")>>)
    ELSE IF user.password = None
    THEN Failure(credentialsError("no_password_set"),
                 <<loginFailed("no_password_set")>>)
    ELSE IF ~verifyPassword(data.password, user.password)
    THEN Failure(credentialsError("invalid_password"),
                 <<loginFailed("invalid_password")>>)
    ELSE IF primaryRole = None
    THEN Failure(createAppError("Usuario sin roles asignados", HTTP_FORBIDDEN),
                 <<loginFailed("no_role_assigned")>>)
    ELSE
    LET role == The(primaryRole)
        tokenPayload == [ userId |-> user.id, institutionId |-> user.institutionId,
                          roleId |-> role.roleId, roleName |-> role.role.name,
                          email |-> user.email ]
    IN  Success([ user |-> [ id |-> user.id, email |-> user.email,
                             institutionId |-> user.institutionId,
                             roleName |-> role.role.name,
                             isActive |-> user.isActive ],
                  tokens |-> generateTokenPair(tokenPayload, e, now) ],
                <<[event |-> "login_success", reason |-> ""]>>)

\* (mutant: lastLogin is written as soon as the principal is found)
loginUserDb_early(data, d, e, now) ==
    [d EXCEPT !.users =
        { IF u.email = data.email THEN [u EXCEPT !.lastLogin = Some(now)] ELSE u
          : u \in @ }]

\* prisma.user.update({ where: { id }, data: { lastLogin: new Date() } }),
\* reached only by a login that succeeds
loginUserDb(data, d, e, now) ==
    IF loginUserTry(data, d, e, now).ok
    THEN [d EXCEPT !.users =
            { IF u.email = data.email THEN [u EXCEPT !.lastLogin = Some(now)] ELSE u
              : u \in @ }]
    ELSE d

loginUser(data, d, e, now) ==
    LET r == loginUserTry(data, d, e, now)
    IN  IF r.ok THEN r
        ELSE [r EXCEPT !.error =
                Some(serviceCatch(The(r.error), "Error interno durante el login"))]

refreshTokensTry(refreshToken, d, e, now) ==
    LET v == verifyRefreshToken(refreshToken, e, now)
    IN
    IF ~v.ok THEN Failure(The(v.error), <<>>)
    ELSE
    LET decoded == The(v.decoded)
        found   == findUniqueById(d.users, decoded.userId)
    IN
    IF \/ found = None
       \/ ~The(found).isActive
       \/ institutionOf(d, The(found)) = None
       \/ The(institutionOf(d, The(found))).status # "active"
    THEN Failure(createAppError("Token de refresh invalido", HTTP_UNAUTHORIZED),
                 <<[event |-> "refresh_failed",
                    reason |-> "user_or_institution_inactive"]>>)
    ELSE
    LET user == The(found)
        primaryRole == activeRoleOf(userRolesOf(d, user.id))
    IN
    IF primaryRole = None
    THEN Failure(createAppError("Usuario sin roles asignados", HTTP_FORBIDDEN), <<>>)
    ELSE
    LET role == The(primaryRole)
    IN  Success(generateTokenPair(
                    [ userId |-> user.id, institutionId |-> user.institutionId,
                      roleId |-> role.roleId, roleName |-> role.role.name,
                      email |-> user.email ], e, now),
                <<[event |-> "token_refreshed", reason |-> ""]>>)

refreshTokens(refreshToken, d, e, now) ==
    LET r == refreshTokensTry(refreshToken, d, e, now)
    IN  IF r.ok THEN r
        ELSE [r EXCEPT !.error =
                Some(serviceCatch(The(r.error), "Error refrescando tokens"))]

\* what a route answers: the controller's success response, or, through
\* asyncHandler, the response of errorHandler to what the service threw
controllerResponse(r, successStatus, successMessage, e) ==
    IF r.ok
    THEN [ status |-> successStatus, message |-> successMessage, data |-> r.result,
           error |-> None, events |-> r.events ]
    ELSE [ status |-> errorHandler(The(r.error), e).status,
           message |-> errorHandler(The(r.error), e).message, data |-> None,
           error |-> r.error, events |-> r.events ]

rejectedBody ==
    [ status |-> validationErrorResponse.status,
      message |-> validationErrorResponse.message,
      data |-> None, error |-> None, events |-> <<>> ]

\* router.post('/login', validateLogin, login)
loginRoute(body, d, e, now) ==
    IF body.email = "" \/ body.password = <<>>
    THEN rejectedBody
    ELSE controllerResponse(loginUser(body, d, e, now), HTTP_OK, "Login exitoso", e)

\* router.post('/refresh', validateRefreshToken, refresh)
refreshRoute(body, d, e, now) ==
    IF body.refreshToken = <<>>
    THEN rejectedBody
    ELSE controllerResponse(refreshTokens(body.refreshToken, d, e, now), HTTP_OK,
                            "Tokens actualizados exitosamente", e)

\* the token pair in the data of a response: { user, tokens } or the pair
\* itself; other data hold none
tokensIn(data) ==
    IF data = None THEN {}
    ELSE IF "tokens" \in DOMAIN The(data) THEN { The(data).tokens }
    ELSE IF "accessToken" \in DOMAIN The(data) THEN { The(data) }
    ELSE {}

\* one request to a route of the auth module, start to response
Route(op, args, o, d) ==
    /\ res = <<>>
    /\ res' = Append(res, [status |-> o.status, message |-> o.message])
    /\ last' = [ op |-> op, args |-> args, status |-> o.status,
                 message |-> o.message, next |-> FALSE, events |-> o.events,
                 queries |-> <<>>, pre |-> req, db |-> db,
                 error |-> o.error, data |-> o.data ]
    /\ db' = d
    /\ issued' = issued \cup tokensIn(o.data)
    /\ UNCHANGED <<env, clock, req, procs>>

-----------------------------------------------------------------------------
(* auth.service.ts: registerUser, one step per await that the store can    *)
(* interleave; auth.controller.ts: router.post('/register', ...).  A call  *)
(* in flight is a record of procs; tx is the write set of its transaction, *)
(* invisible to the others until the commit.                               *)

RoleNames == { "ADMIN", "SECRETARY", "DIRECTOR", "TEACHER", "STUDENT", "TUTOR",
               "FINANCE", "SUPPORT" }

\* registerSchema: email, password (8..128, a lowercase, an uppercase, a digit),
\* institutionId, roleName
registerSchema(body) ==
    /\ body.email # ""
    /\ Len(body.password) >= 8
    /\ Len(body.password) <= 128
    /\ Range(body.password) \cap Range(LowerCase) # {}
    /\ Range(body.password) \cap Range(UpperCase) # {}
    /\ Range(body.password) \cap Digits # {}
    /\ body.institutionId # ""
    /\ body.roleName \in RoleNames

EmptyTx == [ users |-> {}, userRoles |-> <<>>, students |-> {}, teachers |-> {},
             tutorProfiles |-> {} ]

NewCall(userId, data) ==
    [ pc |-> "start", data |-> data, userId |-> userId, passedLookup |-> FALSE,
      role |-> None, hash |-> None, tx |-> EmptyTx, discarded |-> 0,
      raised |-> None, response |-> None ]

\* the rows a transaction's commit makes visible
commitTx(d, tx) ==
    [d EXCEPT !.users = @ \cup tx.users,
              !.userRoles = @ \o tx.userRoles,
              !.students = @ \cup tx.students,
              !.teachers = @ \cup tx.teachers,
              !.tutorProfiles = @ \cup tx.tutorProfiles]

\* (mutant: no transaction, every write is permanent at once)
rollback_none(d, tx) == commitTx(d, tx)

\* the callback of prisma.$transaction rejects: the store keeps none of its writes
rollback(d, tx) == d

\* (mutant: no unique index on "User"."email")
emailKey_absent(d, pending, email) == "free"

\* CREATE UNIQUE INDEX "User_email_key", as an INSERT meets it: a committed
\* row with the email is a violation, an uncommitted one of another
\* transaction makes the INSERT wait for that transaction's end
emailKey(d, pending, email) ==
    IF \E u \in d.users : u.email = email THEN "violation"
    ELSE IF \E u \in pending : u.email = email THEN "wait"
    ELSE "free"

txSize(tx) ==
    Cardinality(tx.users) + Len(tx.userRoles) + Cardinality(tx.students)
    + Cardinality(tx.teachers) + Cardinality(tx.tutorProfiles)

\* registerUser throws: its catch, asyncHandler, errorHandler
registerThrows(p, error, e) ==
    LET thrown == serviceCatch(error, "Error interno durante el registro")
    IN  [p EXCEPT !.pc = "done", !.tx = EmptyTx, !.discarded = txSize(p.tx),
                  !.raised = Some(error),
                  !.response = Some([ status |-> errorHandler(thrown, e).status,
                                      message |-> errorHandler(thrown, e).message,
                                      data |-> None ])]

\* registerUser returns: createdResponse
registerReturns(p, e, now) ==
    LET role == The(p.role)
        tokenPayload == [ userId |-> p.userId, institutionId |-> p.data.institutionId,
                          roleId |-> role.id, roleName |-> p.data.roleName,
                          email |-> p.data.email ]
    IN  [p EXCEPT !.pc = "done", !.tx = EmptyTx,
                  !.response =
                     Some([ status |-> HTTP_CREATED,
                            message |-> "Usuario registrado exitosamente",
                            data |-> Some([ user |-> [ id |-> p.userId,
                                                       email |-> p.data.email,
                                                       institutionId |-> p.data.institutionId,
                                                       roleName |-> p.data.roleName,
                                                       isActive |-> TRUE ],
                                            tokens |-> generateTokenPair(tokenPayload, e, now) ]) ])]

\* a write of the transaction may fail for a reason of the database's own
DatabaseFailure == PlainError("Can't reach database server")

\* validateRegister, then prisma.user.findUnique({ where: { email } })
RegisterLookup(c) ==
    /\ procs[c].pc = "start"
    /\ procs' = [procs EXCEPT ![c] =
         IF ~registerSchema(@.data)
         THEN [@ EXCEPT !.pc = "done",
                        !.response = Some([ status |-> validationErrorResponse.status,
                                            message |-> validationErrorResponse.message,
                                            data |-> None ])]
         ELSE IF findUserByEmail(db, @.data.email) # None
         THEN registerThrows(@, createAppError("El email ya esta registrado", HTTP_CONFLICT),
                             env)
         ELSE [@ EXCEPT !.pc = "validate", !.passedLookup = TRUE]]
    /\ UNCHANGED <<db, env, clock, req, res, last, issued>>

\* institution.findUnique, role.findFirst, validatePassword, hashPassword
RegisterValidate(c) ==
    /\ procs[c].pc = "validate"
    /\ LET p    == procs[c]
           inst == findUniqueById(db.institutions, p.data.institutionId)
           roles == { r \in db.roles :
                        /\ r.name = p.data.roleName
                        /\ (r.institutionId = p.data.institutionId \/ r.isSystem) }
       IN  IF inst = None
           THEN procs' = [procs EXCEPT ![c] = registerThrows(p,
                             createAppError("Institucion no encontrada", HTTP_NOT_FOUND), env)]
           ELSE IF The(inst).status # "active"
           THEN procs' = [procs EXCEPT ![c] = registerThrows(p,
                             createAppError("Institucion no activa", HTTP_FORBIDDEN), env)]
           ELSE IF roles = {}
           THEN procs' = [procs EXCEPT ![c] = registerThrows(p,
                             createAppError("Rol no encontrado", HTTP_NOT_FOUND), env)]
           ELSE IF ~validatePassword(p.data.password).isValid
           THEN procs' = [procs EXCEPT ![c] = registerThrows(p,
                             createAppError("Contrasena invalida", HTTP_BAD_REQUEST), env)]
           ELSE IF ~hashPassword(p.data.password).ok
           THEN procs' = [procs EXCEPT ![c] = registerThrows(p,
                             PlainError("Error al procesar la contrasena"), env)]
           ELSE \E role \in roles :
                  procs' = [procs EXCEPT ![c] =
                              [p EXCEPT !.pc = "txUser", !.role = Some(role),
                                        !.hash = hashPassword(p.data.password).hash]]
    /\ UNCHANGED <<db, env, clock, req, res, last, issued>>

\* a step of the transaction fails: the rejection rolls the transaction back
TxFails(c, error) ==
    /\ db' = rollback(db, procs[c].tx)
    /\ procs' = [procs EXCEPT ![c] = registerThrows(@, error, env)]

\* tx.user.create
TxCreateUser(c) ==
    /\ procs[c].pc = "txUser"
    /\ LET p == procs[c]
           pending == UNION { procs[o].tx.users : o \in DOMAIN procs \ {c} }
           key == emailKey(db, pending, p.data.email)
       IN  /\ key # "wait"
           /\ IF key = "violation"
              THEN TxFails(c, PrismaKnownError("P2002",
                                "Unique constraint failed on the fields: (email)"))
              ELSE \/ TxFails(c, DatabaseFailure)
                   \/ /\ procs' = [procs EXCEPT ![c] =
                            [p EXCEPT !.pc = "txUserRole",
                                      !.tx.users = { [ id |-> p.userId,
                                                       email |-> p.data.email,
                                                       institutionId |-> p.data.institutionId,
                                                       isActive |-> TRUE,
                                                       password |-> p.hash,
                                                       lastLogin |-> None,
                                                       attributes |-> <<>> ] }]]
                      /\ db' = db
    /\ UNCHANGED <<env, clock, req, res, last, issued>>

\* tx.userRole.create; for a role without profile the callback then returns
TxCreateUserRole(c) ==
    /\ procs[c].pc = "txUserRole"
    /\ LET p == procs[c]
       IN  \/ TxFails(c, DatabaseFailure)
           \/ /\ procs' = [procs EXCEPT ![c] =
                    [p EXCEPT !.pc = IF p.data.roleName \in {"STUDENT", "TEACHER", "TUTOR"}
                                     THEN "txProfile" ELSE "commit",
                              !.tx.userRoles = << [ userId |-> p.userId,
                                                    roleId |-> The(p.role).id,
                                                    isPrimary |-> TRUE ] >>]]
              /\ db' = db
    /\ UNCHANGED <<env, clock, req, res, last, issued>>

\* tx.student.create / tx.teacher.create / tx.tutorProfile.create
TxCreateProfile(c) ==
    /\ procs[c].pc = "txProfile"
    /\ LET p == procs[c]
           row == [id |-> "p-" \o p.userId, userId |-> p.userId]
           own == [id |-> "p-" \o p.userId, userId |-> p.userId,
                   institutionId |-> p.data.institutionId]
       IN  \/ TxFails(c, DatabaseFailure)
           \/ /\ procs' = [procs EXCEPT ![c] =
                    CASE p.data.roleName = "STUDENT" ->
                           [p EXCEPT !.pc = "commit", !.tx.students = {own}]
                      [] p.data.roleName = "TEACHER" ->
                           [p EXCEPT !.pc = "commit", !.tx.teachers = {row}]
                      [] p.data.roleName = "TUTOR" ->
                           [p EXCEPT !.pc = "commit", !.tx.tutorProfiles = {own}]]
              /\ db' = db
    /\ UNCHANGED <<env, clock, req, res, last, issued>>

\* the commit of the transaction; then the tokens and the 201 response
TxCommit(c) ==
    /\ procs[c].pc = "commit"
    /\ \/ TxFails(c, DatabaseFailure) /\ issued' = issued
       \/ /\ db' = commitTx(db, procs[c].tx)
          /\ procs' = [procs EXCEPT ![c] = registerReturns(@, env, clock)]
          /\ issued' = issued \cup tokensIn(The(registerReturns(procs[c], env, clock).response).data)
    /\ UNCHANGED <<env, clock, req, res, last>>

-----------------------------------------------------------------------------
(* auth.service.ts: changePassword; auth.controller.ts: the routes         *)
(* change-password and logout.  A result carries the store it leaves.      *)

withDb(r, d) ==
    [ ok |-> r.ok, error |-> r.error, result |-> r.result, events |-> r.events,
      db |-> d ]

\* prisma.user.update({ where: { id }, data: { password } })
setPassword(d, userId, hash) ==
    [d EXCEPT !.users =
        { IF u.id = userId THEN [u EXCEPT !.password = hash] ELSE u : u \in @ }]

\* (mutant: the current password is not verified)
currentPasswordValid_any(currentPassword, hash) == TRUE

\* await verifyPassword(data.currentPassword, user.password)
currentPasswordValid(currentPassword, hash) == verifyPassword(currentPassword, hash)

\* changePassword(data); fails: the update is refused by the database
changePassword(data, d, fails) ==
    LET found == findUniqueById(d.users, data.userId)
    IN
    IF found = None \/ The(found).password = None
    THEN withDb(Failure(createAppError("Usuario no encontrado", HTTP_NOT_FOUND), <<>>), d)
    ELSE IF ~currentPasswordValid(data.currentPassword, The(found).password)
    THEN withDb(Failure(createAppError("Contrasena actual incorrecta", HTTP_BAD_REQUEST),
                        <<[event |-> "password_change_failed",
                           reason |-> "invalid_current_password"]>>), d)
    ELSE IF ~validatePassword(data.newPassword).isValid
    THEN withDb(Failure(createAppError("Nueva contrasena invalida", HTTP_BAD_REQUEST),
                        <<>>), d)
    ELSE IF ~hashPassword(data.newPassword).ok
    THEN withDb(Failure(serviceCatch(PlainError("Error al procesar la contrasena"),
                                     "Error cambiando contrasena"), <<>>), d)
    ELSE IF fails
    THEN withDb(Failure(serviceCatch(DatabaseFailure, "Error cambiando contrasena"),
                        <<>>), d)
    ELSE withDb(Success(TRUE, <<[event |-> "password_changed", reason |-> ""]>>),
                setPassword(d, data.userId, hashPassword(data.newPassword).hash))

\* changePasswordSchema: currentPassword, newPassword (8..128, a lowercase, an
\* uppercase, a digit), confirmPassword equal to newPassword
changePasswordSchema(body) ==
    /\ body.currentPassword # <<>>
    /\ Len(body.newPassword) >= 8
    /\ Len(body.newPassword) <= 128
    /\ Range(body.newPassword) \cap Range(LowerCase) # {}
    /\ Range(body.newPassword) \cap Range(UpperCase) # {}
    /\ Range(body.newPassword) \cap Digits # {}
    /\ body.confirmPassword # <<>>
    /\ body.newPassword = body.confirmPassword

\* the answer of a middleware that ended the request, as a route's answer
middlewareAnswer(o, d) ==
    [ status |-> o.status, message |-> o.message, data |-> None, error |-> None,
      events |-> o.events, db |-> d ]

\* router.put('/change-password', authenticate, validateChangePassword,
\* changeUserPassword)
changePasswordRoute(rq, body, d, e, now, fails) ==
    LET a == authenticate(rq, d, e, now)
    IN
    IF ~a.next THEN middlewareAnswer(a, d)
    ELSE IF ~changePasswordSchema(body)
    THEN middlewareAnswer([rejectedBody EXCEPT !.events = a.events], d)
    ELSE
    LET r == changePassword([ userId |-> The(a.req.user).id,
                              currentPassword |-> body.currentPassword,
                              newPassword |-> body.newPassword ], d, fails)
        c == controllerResponse([r EXCEPT !.result = Some([success |-> TRUE])],
                                HTTP_OK, "Contrasena cambiada exitosamente", e)
    IN  [ status |-> c.status, message |-> c.message,
          data |-> IF r.ok THEN c.data ELSE None, error |-> c.error,
          events |-> a.events \o c.events, db |-> r.db ]

\* router.post('/logout', authenticate, logout)
logoutRoute(rq, d, e, now) ==
    LET a == authenticate(rq, d, e, now)
    IN  IF ~a.next THEN middlewareAnswer(a, d)
        ELSE [ status |-> HTTP_OK, message |-> "Sesion cerrada correctamente",
               data |-> Some([message |-> "Logout exitoso"]), error |-> None,
               events |-> a.events, db |-> d ]

-----------------------------------------------------------------------------
(* auth.service.ts: requestPasswordReset, one step per await;              *)
(* auth.controller.ts: router.post('/request-password-reset', ...).  A     *)
(* call in flight is a record of procs; a call that ended is a record of   *)
(* issued, numbered in the order in which the calls ended.                 *)

\* 15 * 60 * 1000 ms, in clock ticks
TicksPerQuarterHour == 1

\* setTimeout(resolve, 1000)
resetDelayMs == 1000

\* crypto.randomBytes(32).toString('hex'): the k-th draw differs from all before
generatePasswordResetToken(k) == "hex-" \o ToString(k)

\* requestPasswordResetSchema: a non-empty email
requestPasswordResetSchema(body) == body.email # ""

\* (mutant: an inactive principal is treated as found)
notResettable_lax(found) == found = None

\* !user || !user.isActive
notResettable(found) == found = None \/ ~The(found).isActive

\* (mutant: a token already stored is kept)
storeResetToken_keepFirst(d, userId, resetToken, expiresAt) ==
    [d EXCEPT !.users =
        { IF u.id = userId /\ ~("passwordResetToken" \in DOMAIN u.attributes)
          THEN [u EXCEPT !.attributes =
                   [ passwordResetToken |-> resetToken,
                     passwordResetExpires |-> expiresAt ]]
          ELSE u : u \in @ }]

\* prisma.user.update({ data: { attributes: { ...(user.attributes || {}),
\* passwordResetToken, passwordResetExpires } } }); the user was selected
\* without its attributes, so the spread is empty
storeResetToken(d, userId, resetToken, expiresAt) ==
    [d EXCEPT !.users =
        { IF u.id = userId
          THEN [u EXCEPT !.attributes =
                   [ passwordResetToken |-> resetToken,
                     passwordResetExpires |-> expiresAt ]]
          ELSE u : u \in @ }]

\* requestPasswordResetController: successResponse(res, { message, ...(development
\* && { resetToken, expiresAt }) }, 'Solicitud de reset procesada')
requestPasswordResetResponse(result, e) ==
    [ status |-> HTTP_OK, message |-> "Solicitud de reset procesada",
      data |-> IF isDevelopment(e)
               THEN Some([ message |-> "Si el email existe, recibiras instrucciones",
                           resetToken |-> result.resetToken,
                           expiresAt |-> result.expiresAt ])
               ELSE Some([ message |-> "Si el email existe, recibiras instrucciones" ]) ]

NewResetCall(email) == [ pc |-> "start", email |-> email, user |-> None ]

\* the number of tokens drawn so far
resetTokensDrawn == Cardinality({ c \in issued : c.found /\ c.ok })

\* a call ends: its record, and the answer the client gets
ResetEnds(c, found, ok, result, delayMs, response, d) ==
    /\ db' = d
    /\ procs' = [procs EXCEPT ![c].pc = "done"]
    /\ issued' = issued \cup
          { [ client |-> c, email |-> procs[c].email, n |-> Cardinality(issued) + 1,
              at |-> clock, found |-> found, ok |-> ok, result |-> result,
              delayMs |-> delayMs, wrote |-> d # db, response |-> response ] }
    /\ last' = [ NoCall EXCEPT !.op = "requestPasswordReset",
                               !.args = <<c, procs[c].email>>,
                               !.status = response.status,
                               !.message = response.message,
                               !.db = db ]

\* validateRequestPasswordReset, then prisma.user.findUnique({ where: { email } })
ResetLookup(c) ==
    /\ procs[c].pc = "start"
    /\ IF ~requestPasswordResetSchema([email |-> procs[c].email])
       THEN ResetEnds(c, FALSE, FALSE, None, 0,
                      [ status |-> validationErrorResponse.status,
                        message |-> validationErrorResponse.message,
                        data |-> None ], db)
       ELSE LET found == findUserByEmail(db, procs[c].email)
            IN  /\ procs' = [procs EXCEPT
                               ![c].pc = IF notResettable(found) THEN "delay"
                                         ELSE "update",
                               ![c].user = found]
                /\ UNCHANGED <<db, issued, last>>
    /\ UNCHANGED <<env, clock, req, res>>

\* await new Promise(resolve => setTimeout(resolve, 1000)); return the dummy
ResetDelay(c) ==
    /\ procs[c].pc = "delay"
    /\ LET result == [ resetToken |-> "dummy-token",
                       expiresAt |-> clock + TicksPerQuarterHour ]
       IN  ResetEnds(c, FALSE, TRUE, Some(result), resetDelayMs,
                     requestPasswordResetResponse(result, env), db)
    /\ UNCHANGED <<env, clock, req, res>>

\* generatePasswordResetToken(); await prisma.user.update(...); return; or the
\* update fails and the catch throws the 500
ResetUpdate(c) ==
    /\ procs[c].pc = "update"
    /\ \/ LET result == [ resetToken |-> generatePasswordResetToken(resetTokensDrawn + 1),
                          expiresAt |-> clock + TicksPerQuarterHour ]
          IN  ResetEnds(c, TRUE, TRUE, Some(result), 0,
                        requestPasswordResetResponse(result, env),
                        storeResetToken(db, The(procs[c].user).id,
                                        result.resetToken, result.expiresAt))
       \/ LET error == createAppError("Error procesando solicitud de reset",
                                      HTTP_INTERNAL_SERVER_ERROR)
          IN  ResetEnds(c, TRUE, FALSE, None, 0,
                        [ status |-> errorHandler(error, env).status,
                          message |-> errorHandler(error, env).message,
                          data |-> None ], db)
    /\ UNCHANGED <<env, clock, req, res>>

-----------------------------------------------------------------------------
(* What the rest of the application does to the store while a request is   *)
(* under way: an institution is suspended, reactivated or deleted.         *)

\* UPDATE "Institution" SET status
setInstitutionStatus(d, id, status) ==
    [d EXCEPT !.institutions =
        { IF i.id = id THEN [i EXCEPT !.status = status] ELSE i : i \in @ }]

\* DELETE FROM "Institution": the foreign keys cascade
deleteInstitution(d, id) ==
    LET users    == { u \in d.users : u.institutionId # id }
        uids     == { u.id : u \in users }
        roles    == { r \in d.roles : r.institutionId # id }
        rids     == { r.id : r \in roles }
        students == { s \in d.students : s.institutionId # id /\ s.userId \in uids }
        sids     == { s.id : s \in students }
        careers  == { c \in d.careers : c.institutionId # id }
        courses  == { c \in d.courses : c.careerId \in { x.id : x \in careers } }
        subjects == { c \in d.subjects : c.courseId \in { x.id : x \in courses } }
    IN  [ users |-> users,
          userRoles |-> SelectSeq(d.userRoles,
                           LAMBDA ur : ur.userId \in uids /\ ur.roleId \in rids),
          roles |-> roles,
          institutions |-> { i \in d.institutions : i.id # id },
          plans |-> d.plans,
          students |-> students,
          teachers |-> { t \in d.teachers : t.userId \in uids },
          tutorProfiles |-> { t \in d.tutorProfiles :
                                t.institutionId # id /\ t.userId \in uids },
          careers |-> careers,
          courses |-> courses,
          subjects |-> subjects,
          virtualClassrooms |-> { v \in d.virtualClassrooms :
                                    v.subjectId \in { x.id : x \in subjects } },
          certificates |-> { c \in d.certificates : c.studentId \in sids } ]

SetInstitutionStatus ==
    /\ res = <<>>
    /\ \E i \in db.institutions : \E st \in {"active", "suspended", NULL} :
          /\ st # i.status
          /\ db' = setInstitutionStatus(db, i.id, st)
    /\ UNCHANGED <<env, clock, req, res, last, procs, issued>>

DeleteInstitution ==
    /\ res = <<>>
    /\ \E i \in db.institutions : db' = deleteInstitution(db, i.id)
    /\ UNCHANGED <<env, clock, req, res, last, procs, issued>>

-----------------------------------------------------------------------------
(* Inputs of the authentication specification *)

Env0 == [ JWT_SECRET |-> "access-secret-0123456789-abcdefgh", JWT_REFRESH_SECRET |-> "refresh-secret-0123456789-abcdefgh",
          JWT_EXPIRES_IN |-> 1, JWT_REFRESH_EXPIRES_IN |-> 2,
          NODE_ENV |-> "production" ]

Now0 == 1

Payload(userId, institutionId, roleId, roleName, email) ==
    [ userId |-> userId, institutionId |-> institutionId, roleId |-> roleId,
      roleName |-> roleName, email |-> email ]

Jwt(key, exp, payload) ==
    jwtSign(key, ISSUER, AUDIENCE, exp, payload)

RoleRows ==
    { [id |-> "r-teacher", name |-> "TEACHER", institutionId |-> NULL, isSystem |-> TRUE],
      [id |-> "r-director", name |-> "DIRECTOR", institutionId |-> NULL, isSystem |-> TRUE],
      [id |-> "r-student", name |-> "STUDENT", institutionId |-> NULL, isSystem |-> TRUE],
      [id |-> "r-admin", name |-> "ADMIN", institutionId |-> NULL, isSystem |-> TRUE] }

UserRow(id, email, institutionId, isActive) ==
    [ id |-> id, email |-> email, institutionId |-> institutionId,
      isActive |-> isActive, password |-> None, lastLogin |-> None,
      attributes |-> <<>> ]

InstitutionRow(id, status, planId) ==
    [ id |-> id, name |-> id, slug |-> id, status |-> status, planId |-> planId ]

Statuses == {"active", "suspended", NULL}

MaxRoles == 2

\* the assignments of user u1, in storage order: up to MaxRoles rows, one per role
RoleAssignments(userId) ==
    LET rids == <<"r-teacher", "r-director", "r-student", "r-admin">>
        n    == IF MaxRoles < 4 THEN MaxRoles ELSE 4
    IN  UNION { { [ i \in 1..k |-> [userId |-> userId, roleId |-> rids[i],
                                    isPrimary |-> prim[i]] ]
                  : prim \in [1..k -> BOOLEAN] } : k \in 0..n }

AccessTokens ==
    { Jwt(k, x, Payload(u, "i1", "r-teacher", "TEACHER", "e1"))
        : k \in {"access-secret-0123456789-abcdefgh",
                  "refresh-secret-0123456789-abcdefgh", "forged"},
          x \in {Now0, Now0 + 1}, u \in {"u1", "u2"} }
    \cup { jwtSign("access-secret-0123456789-abcdefgh", ISSUER, "other-client", Now0 + 1,
                    Payload("u1", "i1", "r-teacher", "TEACHER", "e1")) }

AuthHeaders ==
    { <<>>, <<Word("Bearer")>>, <<Word("Bearer"), SP>>,
      <<Word("Bearer"), SP, Word("garbage")>> }
    \cup { <<Word(s), SP, JwtAtom(t)>> : s \in {"Bearer", "Basic"}, t \in AccessTokens }

AuthnDbs ==
    { [EmptyDb EXCEPT
         !.roles = RoleRows,
         !.institutions = { InstitutionRow("i1", st, NULL) },
         !.users = us,
         !.userRoles = IF us = {} THEN <<>> ELSE ras ]
      : st \in Statuses,
        us \in { {} } \cup { { UserRow("u1", "e1", "i1", a) } : a \in BOOLEAN },
        ras \in RoleAssignments("u1") }

InitAuthn ==
    /\ db \in AuthnDbs
    /\ env = Env0
    /\ clock = Now0
    /\ req \in { FreshRequest(h, NoParams, NoQuery) : h \in AuthHeaders }
    /\ res = <<>>
    /\ last = NoCall
    /\ procs = <<>>
    /\ issued = {}

NextAuthn == Authenticate \/ OptionalAuthenticate

SpecAuthn == InitAuthn /\ [][NextAuthn]_vars

-----------------------------------------------------------------------------
(* Inputs of the tenant specification: two institutions, a principal in    *)
(* each, and in every resource table a row x1 of i1 and a row x2 of i2.    *)

TenantDb ==
    [ EmptyDb EXCEPT
        !.roles = RoleRows,
        !.institutions = { InstitutionRow("i1", "active", NULL),
                           InstitutionRow("i2", "active", NULL) },
        !.users = { UserRow("u1", "e1", "i1", TRUE), UserRow("u2", "e2", "i2", TRUE) },
        !.userRoles = << [userId |-> "u1", roleId |-> "r-teacher", isPrimary |-> TRUE],
                         [userId |-> "u2", roleId |-> "r-teacher", isPrimary |-> TRUE] >>,
        !.students = { [id |-> "x1", userId |-> "u1", institutionId |-> "i1"],
                       [id |-> "x2", userId |-> "u2", institutionId |-> "i2"] },
        !.teachers = { [id |-> "x1", userId |-> "u1"], [id |-> "x2", userId |-> "u2"] },
        !.careers  = { [id |-> "x1", institutionId |-> "i1"],
                       [id |-> "x2", institutionId |-> "i2"] },
        !.courses  = { [id |-> "x1", careerId |-> "x1"], [id |-> "x2", careerId |-> "x2"] },
        !.subjects = { [id |-> "x1", courseId |-> "x1"], [id |-> "x2", courseId |-> "x2"] },
        !.virtualClassrooms = { [id |-> "x1", subjectId |-> "x1"],
                                [id |-> "x2", subjectId |-> "x2"] } ]

TenantHeaders ==
    { <<Word("Bearer"), SP,
        JwtAtom(Jwt("access-secret-0123456789-abcdefgh", Now0 + 1,
                    Payload(u, "i1", "r-teacher", "TEACHER", "e1")))>>
      : u \in {"u1", "u2"} }

InitTenant ==
    /\ db = TenantDb
    /\ env = Env0
    /\ clock = Now0
    /\ req \in { FreshRequest(h, [institutionId |-> i, id |-> x], NoQuery)
                 : h \in TenantHeaders,
                   i \in {NULL, "i1", "i2", "i9"},
                   x \in {NULL, "x1", "x2", "x9"} }
    /\ res = <<>>
    /\ last = NoCall
    /\ procs = <<>>
    /\ issued = {}

NextTenant ==
    \/ Authenticate
    \/ SetTenantContext
    \/ ValidateTenantAccess
    \/ ValidateResourceOwnership
    \/ SetInstitutionStatus
    \/ DeleteInstitution

SpecTenant == InitTenant /\ [][NextTenant]_vars

-----------------------------------------------------------------------------
(* Inputs of the plan-limit specification: institution i1, with or without *)
(* a plan; the plan is the default row but for one limit; one resource     *)
(* table holds n rows of i1 and one row of i2.                             *)

MaxRows == 2

Limits == -1..MaxRows

DefaultPlan ==
    [ id |-> "p1", slug |-> "free", features |-> [reports |-> TRUE, sso |-> FALSE],
      studentLimit |-> 1, teacherLimit |-> 1, adminLimit |-> 1, courseLimit |-> 1,
      aiTeacherCallsMonthly |-> 0, aiStudentMinutesMonthly |-> 0,
      certificateMonthly |-> 0, virtualClassroomLimit |-> 1, storageMB |-> 100 ]

PlanWith(resourceType, limit) ==
    CASE resourceType = "student" -> [DefaultPlan EXCEPT !.studentLimit = limit]
      [] resourceType = "teacher" -> [DefaultPlan EXCEPT !.teacherLimit = limit]
      [] resourceType = "course" -> [DefaultPlan EXCEPT !.courseLimit = limit]
      [] resourceType = "virtualClassroom" ->
             [DefaultPlan EXCEPT !.virtualClassroomLimit = limit]
      [] resourceType = "certificate" ->
             [DefaultPlan EXCEPT !.certificateMonthly = limit]
      [] resourceType = "ai_teacher" ->
             [DefaultPlan EXCEPT !.aiTeacherCallsMonthly = limit]
      [] resourceType = "ai_student" ->
             [DefaultPlan EXCEPT !.aiStudentMinutesMonthly = limit]

\* the principal, the two institutions and one chain career - course - subject
\* - student in each
PlanBaseDb(planId) ==
    [ EmptyDb EXCEPT
        !.roles = RoleRows,
        !.institutions = { InstitutionRow("i1", "active", planId),
                           InstitutionRow("i2", "active", NULL) },
        !.users = { UserRow("u1", "e1", "i1", TRUE), UserRow("u2", "e2", "i2", TRUE) },
        !.userRoles = << [userId |-> "u1", roleId |-> "r-admin", isPrimary |-> TRUE] >>,
        !.careers  = { [id |-> "ca1", institutionId |-> "i1"],
                       [id |-> "ca2", institutionId |-> "i2"] } ]

\* n rows of the given kind in i1 and one in i2
RowsDb(base, resourceType, n) ==
    CASE resourceType = "student" ->
           [base EXCEPT !.students =
               { [id |-> "st" \o ToString(k), userId |-> "u1", institutionId |-> "i1"]
                 : k \in 1..n }
               \cup { [id |-> "st0", userId |-> "u2", institutionId |-> "i2"] }]
      [] resourceType = "teacher" ->
           [base EXCEPT
              !.users = @ \cup { UserRow("t" \o ToString(k), "t" \o ToString(k), "i1", TRUE)
                                 : k \in 1..n },
              !.teachers = { [id |-> "te" \o ToString(k), userId |-> "t" \o ToString(k)]
                             : k \in 1..n }
                           \cup { [id |-> "te0", userId |-> "u2"] }]
      [] resourceType = "course" ->
           [base EXCEPT !.courses =
               { [id |-> "co" \o ToString(k), careerId |-> "ca1"] : k \in 1..n }
               \cup { [id |-> "co0", careerId |-> "ca2"] }]
      [] resourceType = "virtualClassroom" ->
           [base EXCEPT
              !.courses = { [id |-> "co1", careerId |-> "ca1"],
                            [id |-> "co0", careerId |-> "ca2"] },
              !.subjects = { [id |-> "su1", courseId |-> "co1"],
                             [id |-> "su0", courseId |-> "co0"] },
              !.virtualClassrooms =
                  { [id |-> "vc" \o ToString(k), subjectId |-> "su1"] : k \in 1..n }
                  \cup { [id |-> "vc0", subjectId |-> "su0"] }]
      [] resourceType = "certificate" ->
           \* n certificates of this month, one of last month, one of i2
           [base EXCEPT
              !.students = { [id |-> "st1", userId |-> "u1", institutionId |-> "i1"],
                             [id |-> "st0", userId |-> "u2", institutionId |-> "i2"] },
              !.certificates =
                  { [id |-> "ce" \o ToString(k), studentId |-> "st1",
                     issuedAt |-> startOfMonth(Now0)] : k \in 1..n }
                  \cup { [id |-> "ce0", studentId |-> "st0", issuedAt |-> Now0],
                         [id |-> "old", studentId |-> "st1",
                          issuedAt |-> startOfMonth(Now0) - 1] }]

\* the stores without the principal's role assignment
PlanStores ==
    { [RowsDb(PlanBaseDb("p1"), r, n) EXCEPT !.plans = { PlanWith(r, l) }]
      : r \in GatedResources, l \in Limits, n \in 0..MaxRows }
    \cup { RowsDb(PlanBaseDb(NULL), r, n) : r \in GatedResources, n \in 0..MaxRows }
    \cup { [RowsDb(PlanBaseDb("p1"), "student", 0) EXCEPT !.plans = { PlanWith(f, l) }]
           : f \in {"ai_teacher", "ai_student"}, l \in Limits }

\* the principal u1 has one of the system roles
PlanDbs ==
    { [d EXCEPT !.userRoles =
          << [userId |-> "u1", roleId |-> r.id, isPrimary |-> TRUE] >>]
      : d \in PlanStores, r \in RoleRows }

InitPlan ==
    /\ db \in PlanDbs
    /\ env = Env0
    /\ clock = Now0
    /\ req = FreshRequest(
                <<Word("Bearer"), SP,
                  JwtAtom(Jwt("access-secret-0123456789-abcdefgh", Now0 + 1,
                              Payload("u1", "i1", "r-admin", "ADMIN", "e1")))>>,
                NoParams, NoQuery)
    /\ res = <<>>
    /\ last = NoCall
    /\ procs = <<>>
    /\ issued = {}

NextPlan ==
    \/ Authenticate
    \/ ValidateTenantAccess
    \/ SetupABACContext
    \/ CheckPlanLimits
    \/ CheckPlanFeature
    \/ RequireABACPermission

SpecPlan == InitPlan /\ [][NextPlan]_vars

-----------------------------------------------------------------------------
(* Inputs of the login specification: user u1 (email e1), of institution   *)
(* i1 or of none                                                           *)

StrongPassword == <<"A", "b", "c", "d", "1", "2", "3", "!">>

PlainPassword == <<"A", "b", "c", "d", "1", "2", "3", "4">>

LoginDbs ==
    { [EmptyDb EXCEPT
         !.roles = RoleRows,
         !.institutions = { InstitutionRow("i1", st, NULL) },
         !.users = { [UserRow("u1", "e1", i, a) EXCEPT !.password = pw] },
         !.userRoles = ras ]
      : a \in BOOLEAN, st \in Statuses, i \in {"i1", NULL},
        pw \in { None, hashPassword(StrongPassword).hash },
        ras \in RoleAssignments("u1") }

LoginBodies ==
    { [email |-> m, password |-> pw]
      : m \in {"e1", "e9", ""}, pw \in {StrongPassword, PlainPassword, <<>>} }

RefreshBodies ==
    { [refreshToken |-> <<>>], [refreshToken |-> <<Word("garbage")>>] }
    \cup { [refreshToken |-> <<JwtAtom(Jwt(k, x, [userId |-> u, institutionId |-> "i1"]))>>]
           : k \in {"access-secret-0123456789-abcdefgh", "refresh-secret-0123456789-abcdefgh"},
             x \in {Now0, Now0 + 1}, u \in {"u1", "u9"} }

Login ==
    \E body \in LoginBodies :
        Route("login", <<body>>, loginRoute(body, db, env, clock),
              loginUserDb(body, db, env, clock))

Refresh ==
    \E body \in RefreshBodies :
        Route("refresh", <<body>>, refreshRoute(body, db, env, clock), db)

\* the request carries no token, or an access token of u1
LoginHeaders ==
    { <<>>,
      <<Word("Bearer"), SP,
        JwtAtom(Jwt("access-secret-0123456789-abcdefgh", Now0 + 1,
                    Payload("u1", "i1", "r-teacher", "TEACHER", "e1")))>> }

InitLogin ==
    /\ db \in LoginDbs
    /\ env = Env0
    /\ clock = Now0
    /\ req \in { FreshRequest(h, NoParams, NoQuery) : h \in LoginHeaders }
    /\ res = <<>>
    /\ last = NoCall
    /\ procs = <<>>
    /\ issued = {}

NextLogin == Login \/ Refresh \/ Authenticate

SpecLogin == InitLogin /\ [][NextLogin]_vars

-----------------------------------------------------------------------------
(* Inputs of the register specification: three clients register at once,  *)
(* the second and third with the same request; email e0 is taken,          *)
(* institution i1 is active and i2 suspended.                              *)

CommonPassword == <<"A", "d", "m", "i", "n", "1", "2", "!">>

LowerPassword == <<"a", "b", "c", "d", "1", "2", "3", "4">>

RegisterDb ==
    [ EmptyDb EXCEPT
        !.roles = RoleRows \cup
                  { [id |-> "r-tutor", name |-> "TUTOR", institutionId |-> NULL,
                     isSystem |-> TRUE] },
        !.institutions = { InstitutionRow("i1", "active", "p1"),
                           InstitutionRow("i2", "suspended", NULL) },
        !.plans = { DefaultPlan },
        !.users = { [UserRow("u0", "e0", "i1", TRUE)
                       EXCEPT !.password = hashPassword(StrongPassword).hash] },
        !.userRoles = << [userId |-> "u0", roleId |-> "r-student", isPrimary |-> TRUE] >>,
        !.students = { [id |-> "p-u0", userId |-> "u0", institutionId |-> "i1"] } ]

RegisterBodies ==
    { [email |-> m, password |-> pw, institutionId |-> i, roleName |-> r]
      : m \in {"e0", "e1", "e2"},
        pw \in {PlainPassword, StrongPassword, CommonPassword, LowerPassword},
        i \in {"i1", "i2", "i9"},
        r \in {"STUDENT", "TEACHER", "TUTOR", "ADMIN", "FINANCE"} }

\* the requests of the competing clients get as far as the transaction
CompetingBodies ==
    { [email |-> m, password |-> StrongPassword, institutionId |-> "i1", roleName |-> r]
      : m \in {"e1", "e2"}, r \in {"STUDENT", "TEACHER", "ADMIN"} }

Clients == {"c1", "c2", "c3"}

InitRegister ==
    /\ db = RegisterDb
    /\ env = Env0
    /\ clock = Now0
    /\ req = FreshRequest(<<>>, NoParams, NoQuery)
    /\ res = <<>>
    /\ last = NoCall
    /\ procs \in { [c \in Clients |-> NewCall("u-" \o c, IF c = "c1" THEN b1 ELSE b2)]
                   : b1 \in RegisterBodies, b2 \in CompetingBodies }
    /\ issued = {}

NextRegister ==
    \E c \in Clients :
        \/ RegisterLookup(c)
        \/ RegisterValidate(c)
        \/ TxCreateUser(c)
        \/ TxCreateUserRole(c)
        \/ TxCreateProfile(c)
        \/ TxCommit(c)

SpecRegister == InitRegister /\ [][NextRegister]_vars

-----------------------------------------------------------------------------
(* Inputs of the session specification: principal u1 logs in, holds the    *)
(* tokens it is given and comes back with them, while its role             *)
(* assignments, its account and its institution change out of band and     *)
(* time passes.                                                            *)

MaxClock == 3

MaxIssued == 2

\* UPDATE "UserRole" SET "isPrimary" = ("roleId" = roleId) WHERE "userId" =
\* userId, after an INSERT of the assignment if it is not there
setPrimaryRole(d, userId, roleId) ==
    LET has  == \E i \in 1..Len(d.userRoles) :
                   d.userRoles[i].userId = userId /\ d.userRoles[i].roleId = roleId
        rows == IF has THEN d.userRoles
                ELSE Append(d.userRoles,
                            [userId |-> userId, roleId |-> roleId, isPrimary |-> TRUE])
    IN  [d EXCEPT !.userRoles =
            [ i \in 1..Len(rows) |->
                IF rows[i].userId = userId
                THEN [rows[i] EXCEPT !.isPrimary = (rows[i].roleId = roleId)]
                ELSE rows[i] ]]

\* UPDATE "User" SET "isActive" = ...
setUserActive(d, userId, isActive) ==
    [d EXCEPT !.users =
        { IF u.id = userId THEN [u EXCEPT !.isActive = isActive] ELSE u : u \in @ }]

SetPrimaryRole ==
    /\ res = <<>>
    /\ \E r \in {"r-teacher", "r-director"} :
          /\ db' = setPrimaryRole(db, "u1", r)
          /\ db' # db
    /\ UNCHANGED <<env, clock, req, res, last, procs, issued>>

SetUserActive ==
    /\ res = <<>>
    /\ \E u \in db.users : db' = setUserActive(db, u.id, ~u.isActive)
    /\ UNCHANGED <<env, clock, req, res, last, procs, issued>>

Tick ==
    /\ clock < MaxClock
    /\ clock' = clock + 1
    /\ UNCHANGED <<db, env, req, res, last, procs, issued>>

\* the client sends its next request, with no token or one of those it holds
NewRequest ==
    /\ \E h \in { <<>> } \cup { <<Word("Bearer"), SP>> \o t.accessToken : t \in issued } :
          /\ req' = FreshRequest(h, NoParams, NoQuery)
          /\ (req' # req \/ res # <<>>)
    /\ res' = <<>>
    /\ last' = NoCall
    /\ UNCHANGED <<db, env, clock, procs, issued>>

SessionLogin ==
    /\ Cardinality(issued) < MaxIssued
    /\ \E body \in { [email |-> "e1", password |-> StrongPassword] } :
          Route("login", <<body>>, loginRoute(body, db, env, clock),
                loginUserDb(body, db, env, clock))

\* POST /refresh with a refresh token the client holds
SessionRefresh ==
    /\ \E t \in issued :
          LET body == [refreshToken |-> t.refreshToken]
          IN  Route("refresh", <<body>>, refreshRoute(body, db, env, clock), db)
    /\ Cardinality(issued') <= MaxIssued

SessionDbs ==
    { [EmptyDb EXCEPT
         !.roles = RoleRows,
         !.institutions = { InstitutionRow("i1", "active", NULL) },
         !.users = { [UserRow("u1", "e1", "i1", TRUE)
                        EXCEPT !.password = hashPassword(StrongPassword).hash] },
         !.userRoles = ras ]
      : ras \in RoleAssignments("u1") }

InitSession ==
    /\ db \in SessionDbs
    /\ env = Env0
    /\ clock = Now0
    /\ req = FreshRequest(<<>>, NoParams, NoQuery)
    /\ res = <<>>
    /\ last = NoCall
    /\ procs = <<>>
    /\ issued = {}

NextSession ==
    \/ NewRequest
    \/ SessionLogin
    \/ SessionRefresh
    \/ Authenticate
    \/ SetPrimaryRole
    \/ SetUserActive
    \/ SetInstitutionStatus
    \/ Tick

SpecSession == InitSession /\ [][NextSession]_vars

-----------------------------------------------------------------------------
(* Inputs of the access specification: evaluateAccess on every context     *)

AccessContext(roleName, plan) ==
    [ user |-> [ id |-> "u1", roleId |-> "r", roleName |-> roleName,
                 institutionId |-> "i1", attributes |-> <<>> ],
      institution |-> [ id |-> "i1",
                        planId |-> IF plan = None THEN NULL ELSE The(plan).id,
                        status |-> "active" ],
      plan |-> plan ]

ResourceTypes == {"student", "teacher", "grade", "course", "certificate"}

EvaluateAccess ==
    /\ last.op = "none"
    /\ \E r \in ResourceTypes : \E a \in Actions :
          last' = [ NoCall EXCEPT
                      !.op = "evaluateAccess",
                      !.args = <<The(req.abac), r, a>>,
                      !.pre = req,
                      !.data = Some(evaluateAccess(The(req.abac), r, a)) ]
    /\ UNCHANGED <<db, env, clock, req, res, procs, issued>>

InitAccess ==
    /\ db = EmptyDb
    /\ env = Env0
    /\ clock = Now0
    /\ req \in { [FreshRequest(<<>>, NoParams, NoQuery)
                    EXCEPT !.abac = Some(AccessContext(rn, pl))]
                 : rn \in RoleNames, pl \in {None, Some(DefaultPlan)} }
    /\ res = <<>>
    /\ last = NoCall
    /\ procs = <<>>
    /\ issued = {}

NextAccess == EvaluateAccess

SpecAccess == InitAccess /\ [][NextAccess]_vars

-----------------------------------------------------------------------------
(* Inputs of the account specification: principal u1 holds a token pair,   *)
(* changes its password, logs out, refreshes and comes back with the       *)
(* tokens it holds, while its account and its institution change out of    *)
(* band and time passes.                                                   *)

OtherPassword == <<"X", "y", "z", "w", "9", "8", "7", "?">>

AccountDbs ==
    { [EmptyDb EXCEPT
         !.roles = RoleRows,
         !.institutions = { InstitutionRow("i1", "active", NULL) },
         !.users = { [UserRow("u1", "e1", "i1", TRUE) EXCEPT !.password = pw],
                     [UserRow("u2", "e2", "i1", TRUE)
                        EXCEPT !.password = hashPassword(StrongPassword).hash] },
         !.userRoles = << [userId |-> "u1", roleId |-> "r-teacher", isPrimary |-> TRUE],
                          [userId |-> "u2", roleId |-> "r-teacher", isPrimary |-> TRUE] >> ]
      : pw \in { None, hashPassword(StrongPassword).hash } }

ChangePasswordBodies ==
    { [currentPassword |-> c, newPassword |-> n, confirmPassword |-> n]
      : c \in {StrongPassword, OtherPassword, <<>>},
        n \in {StrongPassword, OtherPassword, PlainPassword, LowerPassword} }
    \cup { [currentPassword |-> StrongPassword, newPassword |-> OtherPassword,
            confirmPassword |-> StrongPassword] }

ChangePassword ==
    \E body \in ChangePasswordBodies : \E fails \in BOOLEAN :
        LET o == changePasswordRoute(req, body, db, env, clock, fails)
        IN  Route("changePassword", <<body, fails>>, o, o.db)

Logout ==
    Route("logout", <<>>, logoutRoute(req, db, env, clock), db)

InitAccount ==
    /\ db \in AccountDbs
    /\ env = Env0
    /\ clock = Now0
    /\ req = FreshRequest(<<>>, NoParams, NoQuery)
    /\ res = <<>>
    /\ last = NoCall
    /\ procs = <<>>
    /\ issued = { generateTokenPair(Payload("u1", "i1", "r-teacher", "TEACHER", "e1"),
                                    Env0, Now0) }

NextAccount ==
    \/ NewRequest
    \/ ChangePassword
    \/ Logout
    \/ SessionRefresh
    \/ Authenticate
    \/ SetUserActive
    \/ SetInstitutionStatus
    \/ Tick

SpecAccount == InitAccount /\ [][NextAccount]_vars

-----------------------------------------------------------------------------
(* Inputs of the reset specification: three clients ask for a password     *)
(* reset, each for the email of the active principal u1, of the inactive   *)
(* principal u2, of nobody, or for none, while time passes.                *)

ResetDb ==
    [ EmptyDb EXCEPT
        !.roles = RoleRows,
        !.institutions = { InstitutionRow("i1", "active", NULL) },
        !.users = { UserRow("u1", "e1", "i1", TRUE), UserRow("u2", "e2", "i1", FALSE) },
        !.userRoles = << [userId |-> "u1", roleId |-> "r-teacher", isPrimary |-> TRUE],
                         [userId |-> "u2", roleId |-> "r-teacher", isPrimary |-> TRUE] >> ]

ResetEmails == {"e1", "e2", "e9", ""}

\* principal u1 with nothing in its attributes column, or with a key of its own
ResetDbs ==
    { ResetDb,
      [ResetDb EXCEPT !.users =
          { IF u.id = "u1" THEN [u EXCEPT !.attributes = [theme |-> "dark"]] ELSE u
            : u \in @ }] }

InitReset ==
    /\ db \in ResetDbs
    /\ env \in { Env0, [Env0 EXCEPT !.NODE_ENV = "development"] }
    /\ clock = Now0
    /\ req = FreshRequest(<<>>, NoParams, NoQuery)
    /\ res = <<>>
    /\ last = NoCall
    /\ procs \in { [c \in Clients |-> NewResetCall(m[c])] : m \in [Clients -> ResetEmails] }
    /\ issued = {}

NextReset ==
    \/ \E c \in Clients : ResetLookup(c)
    \/ \E c \in Clients : ResetDelay(c)
    \/ \E c \in Clients : ResetUpdate(c)
    \/ Tick

SpecReset == InitReset /\ [][NextReset]_vars

-----------------------------------------------------------------------------
(* Inputs of the token specification: the server starts under any          *)
(* configuration envSchema accepts; principal u1 logs in and presents the  *)
(* tokens it holds, each kind on either endpoint.                          *)

minSecretLength == 32

\* JWT_SECRET: z.string().min(32), JWT_REFRESH_SECRET: z.string().min(32)
envSchema(e) ==
    /\ Len(e.JWT_SECRET) >= minSecretLength
    /\ Len(e.JWT_REFRESH_SECRET) >= minSecretLength

Secrets ==
    { "access-secret-0123456789-abcdefgh", "refresh-secret-0123456789-abcdefgh",
      "0123456789-0123456789-012345678", "short" }

\* validateEnvironment: the configurations the process starts with
AcceptedEnvs ==
    { e \in { [Env0 EXCEPT !.JWT_SECRET = a, !.JWT_REFRESH_SECRET = r]
               : a \in Secrets, r \in Secrets } : envSchema(e) }

TokenDb ==
    [EmptyDb EXCEPT
       !.roles = RoleRows,
       !.institutions = { InstitutionRow("i1", "active", NULL) },
       !.users = { [UserRow("u1", "e1", "i1", TRUE)
                      EXCEPT !.password = hashPassword(StrongPassword).hash] },
       !.userRoles = << [userId |-> "u1", roleId |-> "r-teacher", isPrimary |-> TRUE] >> ]

\* the client sends a request with one of the tokens it holds as bearer
PresentToken ==
    /\ \E t \in issued : \E tok \in {t.accessToken, t.refreshToken} :
          /\ req' = FreshRequest(<<Word("Bearer"), SP>> \o tok, NoParams, NoQuery)
          /\ (req' # req \/ res # <<>>)
    /\ res' = <<>>
    /\ last' = NoCall
    /\ UNCHANGED <<db, env, clock, procs, issued>>

\* POST /refresh with one of the tokens the client holds
RefreshWithToken ==
    /\ \E t \in issued : \E tok \in {t.accessToken, t.refreshToken} :
          LET body == [refreshToken |-> tok]
          IN  Route("refresh", <<body>>, refreshRoute(body, db, env, clock), db)
    /\ Cardinality(issued') <= MaxIssued

InitTokens ==
    /\ db = TokenDb
    /\ env \in AcceptedEnvs
    /\ clock = Now0
    /\ req = FreshRequest(<<>>, NoParams, NoQuery)
    /\ res = <<>>
    /\ last = NoCall
    /\ procs = <<>>
    /\ issued = {}

NextTokens ==
    \/ SessionLogin
    \/ PresentToken
    \/ Authenticate
    \/ RefreshWithToken
    \/ Tick

SpecTokens == InitTokens /\ [][NextTokens]_vars

-----------------------------------------------------------------------------
(* Inputs of the verification specification: access tokens are issued for  *)
(* two principals, time passes, and verifyAccessToken is applied to an     *)
(* issued token as it is, to one whose content was altered after signing,  *)
(* and to tokens signed elsewhere.                                         *)

VerifyPayloads ==
    { Payload("u1", "i1", "r-teacher", "TEACHER", "e1"),
      Payload("u2", "i2", "r-admin", "ADMIN", "e2") }

Alterations == {"userId", "roleName", "exp", "iss", "aud"}

\* the token with one claim changed and the signature left as it was
alter(tokenString, a) ==
    LET t == tokenString[1].jwt
    IN  << JwtAtom(
           CASE a = "userId"   -> [t EXCEPT !.payload.userId = "u9"]
             [] a = "roleName" -> [t EXCEPT !.payload.roleName = "SUPPORT"]
             [] a = "exp"      -> [t EXCEPT !.exp = @ + 1]
             [] a = "iss"      -> [t EXCEPT !.iss = "other-api"]
             [] a = "aud"      -> [t EXCEPT !.aud = "other-client"]) >>

\* the same claims signed by someone else: with another key, or with the
\* server's key for another issuer or audience
signedElsewhere(tokenString, e, a) ==
    LET t == tokenString[1].jwt
    IN  << JwtAtom(
           CASE a = "key" -> jwtSign("forged", t.iss, t.aud, t.exp, t.payload)
             [] a = "iss" -> jwtSign(e.JWT_SECRET, "other-api", t.aud, t.exp, t.payload)
             [] a = "aud" -> jwtSign(e.JWT_SECRET, t.iss, "other-client", t.exp, t.payload)) >>

IssueAccessToken ==
    /\ Cardinality(issued) < MaxIssued
    /\ \E payload \in VerifyPayloads :
          issued' = issued \cup
                      { [ token   |-> generateAccessToken(payload, env, clock),
                          payload |-> payload,
                          exp     |-> clock + env.JWT_EXPIRES_IN ] }
    /\ UNCHANGED <<db, env, clock, req, res, last, procs>>

Verified(how, what, origin, tokenString) ==
    /\ last' = [ op |-> "verifyAccessToken", how |-> how, what |-> what,
                 origin |-> origin, token |-> tokenString, at |-> clock,
                 result |-> verifyAccessToken(tokenString, env, clock) ]
    /\ UNCHANGED <<db, env, clock, req, res, procs, issued>>

VerifyIssued ==
    \E i \in issued : Verified("issued", "", i, i.token)

VerifyAltered ==
    \E i \in issued : \E a \in Alterations :
        Verified("altered", a, i, alter(i.token, a))

VerifySignedElsewhere ==
    \E i \in issued : \E a \in {"key", "iss", "aud"} :
        Verified("elsewhere", a, i, signedElsewhere(i.token, env, a))

VerifyGarbage ==
    Verified("garbage", "", [token |-> <<>>, payload |-> <<>>, exp |-> 0],
             <<Word("garbage")>>)

InitVerify ==
    /\ db = EmptyDb
    /\ env = Env0
    /\ clock = Now0
    /\ req = FreshRequest(<<>>, NoParams, NoQuery)
    /\ res = <<>>
    /\ last = [ op |-> "none", how |-> "", what |-> "",
                origin |-> [token |-> <<>>, payload |-> <<>>, exp |-> 0],
                token |-> <<>>, at |-> 0,
                result |-> [ok |-> FALSE, error |-> "", decoded |-> None] ]
    /\ procs = <<>>
    /\ issued = {}

NextVerify ==
    \/ IssueAccessToken
    \/ VerifyIssued
    \/ VerifyAltered
    \/ VerifySignedElsewhere
    \/ VerifyGarbage
    \/ Tick

SpecVerify == InitVerify /\ [][NextVerify]_vars

-----------------------------------------------------------------------------
(* Inputs of the header specification: every Authorization header of up to *)
(* MaxHeaderLen atoms, among them the space, two casings of the scheme,    *)
(* another scheme, a valid token and a word.                               *)

MaxHeaderLen == 4

HeaderAtoms ==
    { SP, Word("Bearer"), Word("bearer"), Word("Basic"), Word("x"),
      JwtAtom(Jwt("access-secret-0123456789-abcdefgh", Now0 + 1,
                  Payload("u1", "i1", "r-teacher", "TEACHER", "e1"))) }

Headers == UNION { [1..n -> HeaderAtoms] : n \in 0..MaxHeaderLen }

\* extractTokenFromHeader(req.headers.authorization), as authenticate calls it
ExtractTokenFromHeader ==
    /\ last.op = "none"
    /\ last' = [NoCall EXCEPT !.op = "extractTokenFromHeader", !.pre = req,
                              !.data = extractTokenFromHeader(req.headers.authorization)]
    /\ UNCHANGED <<db, env, clock, req, res, procs, issued>>

InitHeader ==
    /\ db = TokenDb
    /\ env = Env0
    /\ clock = Now0
    /\ req \in { FreshRequest(h, NoParams, NoQuery) : h \in Headers }
    /\ res = <<>>
    /\ last = NoCall
    /\ procs = <<>>
    /\ issued = {}

NextHeader ==
    \/ ExtractTokenFromHeader
    \/ Authenticate

SpecHeader == InitHeader /\ [][NextHeader]_vars

-----------------------------------------------------------------------------
(* The tenant filter: applyTenantFilter and the requireTenantAccess list,  *)
(* on requests whose query string may already name an institution.        *)

\* adds req.institutionId to the query unless the query has one
applyTenantFilter(rq) ==
    IF ~Truthy(rq.institutionId)
    THEN Respond(rq, HTTP_BAD_REQUEST, "Contexto de tenant no establecido", <<>>, <<>>)
    ELSE CallNext(IF ~Truthy(rq.query.institutionId)
                  THEN [rq EXCEPT !.query.institutionId = rq.institutionId]
                  ELSE rq,
                  <<>>, <<>>)

\* [setTenantContext, validateTenantAccess, applyTenantFilter]
requireTenantAccess(rq, d) ==
    LET s0 == ChainStart(rq)
        s1 == andThen(s0, setTenantContext(s0.req))
        s2 == andThen(s1, validateTenantAccess(s1.req, d))
    IN  andThen(s2, applyTenantFilter(s2.req))

ApplyTenantFilter ==
    Apply("applyTenantFilter", <<>>, applyTenantFilter(req))

RequireTenantAccess ==
    ApplyChain("requireTenantAccess", <<>>, requireTenantAccess(req, db))

InitFilter ==
    /\ db = TenantDb
    /\ env = Env0
    /\ clock = Now0
    /\ req \in { FreshRequest(h, [institutionId |-> i, id |-> NULL], [institutionId |-> q])
                 : h \in TenantHeaders,
                   i \in {NULL, "i1", "i2"},
                   q \in {NULL, "", "i1", "i2", "i9"} }
    /\ res = <<>>
    /\ last = NoCall
    /\ procs = <<>>
    /\ issued = {}

NextFilter ==
    \/ Authenticate
    \/ SetTenantContext
    \/ ValidateTenantAccess
    \/ ApplyTenantFilter
    \/ RequireTenantAccess

SpecFilter == InitFilter /\ [][NextFilter]_vars

-----------------------------------------------------------------------------
(* initializeDatabase: the connection loop of the server's start.  The     *)
(* process is the record in procs; what each call of connectDatabase will  *)
(* do is drawn at the start.                                               *)

maxRetries == 5

retryDelay == 2000

\* (mutant: the delay doubles)
nextDelay_doubling(delay) == delay * 2

\* Math.floor(delay * CONNECTION_CONFIG.backoffMultiplier), the multiplier 1.5
nextDelay(delay) == (delay * 3) \div 2

ConnectOutcomes == {"connected", "refused", "timeout"}

\* let retries = 0; let delay = CONNECTION_CONFIG.retryDelay
NewInitialization(outcomes) ==
    [ pc |-> "connect", retries |-> 0, delay |-> retryDelay,
      attempts |-> 0, slept |-> <<>>, outcomes |-> outcomes ]

\* await connectDatabase(): return, or catch: retries++, throw after the last
DbConnect ==
    /\ procs.pc = "connect"
    /\ procs.retries < maxRetries
    /\ LET n == procs.attempts + 1
       IN  IF procs.outcomes[n] = "connected"
           THEN procs' = [procs EXCEPT !.attempts = n, !.pc = "returned"]
           ELSE procs' = [procs EXCEPT !.attempts = n,
                                       !.retries = @ + 1,
                                       !.pc = IF procs.retries + 1 >= maxRetries
                                              THEN "thrown" ELSE "sleep"]
    /\ UNCHANGED <<db, env, clock, req, res, last, issued>>

\* await sleep(delay); delay = Math.floor(delay * 1.5)
DbSleep ==
    /\ procs.pc = "sleep"
    /\ procs' = [procs EXCEPT !.slept = Append(@, procs.delay),
                              !.delay = nextDelay(procs.delay),
                              !.pc = "connect"]
    /\ UNCHANGED <<db, env, clock, req, res, last, issued>>

InitDatabase ==
    /\ db = EmptyDb
    /\ env = Env0
    /\ clock = Now0
    /\ req = FreshRequest(<<>>, NoParams, NoQuery)
    /\ res = <<>>
    /\ last = NoCall
    /\ procs \in { NewInitialization(o) : o \in [1..maxRetries -> ConnectOutcomes] }
    /\ issued = {}

NextDatabase ==
    \/ DbConnect
    \/ DbSleep

\* connectDatabase and sleep are awaited promises that settle
SpecDatabase == InitDatabase /\ [][NextDatabase]_vars /\ WF_vars(NextDatabase)

-----------------------------------------------------------------------------
(* Inputs of the quota specification: three clients send a create request  *)
(* of the same kind for institution i1 at once; each passes                *)
(* checkPlanLimits and then its handler creates the row.                   *)

QuotaKinds == {"student", "course"}

\* the count checkPlanLimits reads for the kind
quotaCount(d, kind, institutionId) ==
    CASE kind = "student" -> countStudents(d, institutionId)
      [] kind = "course" -> countCourses(d, institutionId)

\* the handler behind the check: prisma.<kind>.create for the institution
createResource(d, kind, id) ==
    CASE kind = "student" ->
           [d EXCEPT !.students =
               @ \cup { [id |-> id, userId |-> "u1", institutionId |-> "i1"] }]
      [] kind = "course" ->
           [d EXCEPT !.courses = @ \cup { [id |-> id, careerId |-> "ca1"] }]

NewCreateCall(kind) ==
    [ pc |-> "start", kind |-> kind, read |-> 0, atCreate |-> 0 ]

\* the request as authenticate, validateTenantAccess and setupABACContext leave it
QuotaRequest(d) ==
    LET r0 == FreshRequest(<<Word("Bearer"), SP,
                             JwtAtom(Jwt("access-secret-0123456789-abcdefgh", Now0 + 1,
                                         Payload("u1", "i1", "r-admin", "ADMIN", "e1")))>>,
                           NoParams, NoQuery)
        r1 == authenticate(r0, d, Env0, Now0).req
        r2 == validateTenantAccess(r1, d).req
    IN  setupABACContext(r2, d).req

\* checkPlanLimits(kind, 'create') on the client's request
QuotaCheck(c) ==
    /\ procs[c].pc = "start"
    /\ LET o == checkPlanLimits(procs[c].kind, "create", req, db, clock)
       IN  procs' = [procs EXCEPT
                       ![c].pc = IF o.next THEN "create" ELSE "denied",
                       ![c].read = quotaCount(db, procs[c].kind, "i1")]
    /\ UNCHANGED <<db, env, clock, req, res, last, issued>>

\* next(): the handler creates the row
QuotaCreate(c) ==
    /\ procs[c].pc = "create"
    /\ db' = createResource(db, procs[c].kind, "new-" \o c)
    /\ procs' = [procs EXCEPT
                   ![c].pc = "done",
                   ![c].atCreate = quotaCount(db, procs[c].kind, "i1")]
    /\ UNCHANGED <<env, clock, req, res, last, issued>>

InitQuota ==
    /\ \E kind \in QuotaKinds : \E l \in Limits : \E n \in 0..MaxRows :
          /\ db = [RowsDb(PlanBaseDb("p1"), kind, n) EXCEPT !.plans = { PlanWith(kind, l) }]
          /\ procs = [c \in Clients |-> NewCreateCall(kind)]
    /\ env = Env0
    /\ clock = Now0
    /\ req = QuotaRequest(db)
    /\ res = <<>>
    /\ last = [NoCall EXCEPT !.db = db]
    /\ issued = {}

NextQuota ==
    \/ \E c \in Clients : QuotaCheck(c)
    \/ \E c \in Clients : QuotaCreate(c)

SpecQuota == InitQuota /\ [][NextQuota]_vars

-----------------------------------------------------------------------------
(* The request pipeline: the stages of auth, tenant and abac applied to    *)
(* one request in any order, and the chain authenticate, setTenantContext, *)
(* setupABACContext as Express runs it.                                     *)

\* router.use(authenticate, setTenantContext, setupABACContext)
tenantPipeline(rq, d, e, now) ==
    LET s0 == ChainStart(rq)
        s1 == andThen(s0, authenticate(s0.req, d, e, now))
        s2 == andThen(s1, setTenantContext(s1.req))
    IN  andThen(s2, setupABACContext(s2.req, d))

TenantPipeline ==
    ApplyChain("tenantPipeline", <<>>, tenantPipeline(req, db, env, clock))

PipelineHeaders ==
    { <<>>, <<Word("Bearer"), SP, Word("garbage")>>,
      <<Word("Bearer"), SP,
        JwtAtom(Jwt("access-secret-0123456789-abcdefgh", Now0 + 1,
                    Payload("u1", "i1", "r-admin", "ADMIN", "e1")))>> }

PipelineDbs ==
    { setInstitutionStatus(d, "i1", st)
      : d \in { [PlanBaseDb("p1") EXCEPT !.plans = { DefaultPlan }], PlanBaseDb(NULL) },
        st \in {"active", "suspended"} }

InitPipeline ==
    /\ db \in PipelineDbs
    /\ env = Env0
    /\ clock = Now0
    /\ req \in { FreshRequest(h, [institutionId |-> i, id |-> NULL], NoQuery)
                 : h \in PipelineHeaders, i \in {NULL, "i1", "i2"} }
    /\ res = <<>>
    /\ last = NoCall
    /\ procs = <<>>
    /\ issued = {}

NextPipeline ==
    \/ Authenticate
    \/ OptionalAuthenticate
    \/ SetTenantContext
    \/ ValidateTenantAccess
    \/ SetupABACContext
    \/ TenantPipeline

SpecPipeline == InitPipeline /\ [][NextPipeline]_vars

-----------------------------------------------------------------------------
(* Inputs of the bulk-ownership specification: validateBulkOwnership on     *)
(* every list of up to MaxIds ids, against rows x1, x3 of i1 and x2 of i2   *)

MaxIds == 3

BulkDb ==
    [ TenantDb EXCEPT
        !.students = @ \cup { [id |-> "x3", userId |-> "u1", institutionId |-> "i1"] },
        !.careers  = @ \cup { [id |-> "x3", institutionId |-> "i1"] } ]

BulkIds == UNION { [1..n -> {"x1", "x2", "x3", "x9"}] : n \in 0..MaxIds }

ValidateBulkOwnership ==
    /\ last.op = "none"
    /\ \E m \in {"student", "career", "teacher"} : \E ids \in BulkIds :
       \E i \in {"i1", "i2"} : \E fails \in BOOLEAN :
          last' = [ NoCall EXCEPT
                      !.op = "validateBulkOwnership",
                      !.args = <<m, ids, i, fails>>,
                      !.db = db,
                      !.data = Some(validateBulkOwnership(db, m, ids, i, fails)) ]
    /\ UNCHANGED <<db, env, clock, req, res, procs, issued>>

InitBulk ==
    /\ db = BulkDb
    /\ env = Env0
    /\ clock = Now0
    /\ req = FreshRequest(<<>>, NoParams, NoQuery)
    /\ res = <<>>
    /\ last = NoCall
    /\ procs = <<>>
    /\ issued = {}

NextBulk == ValidateBulkOwnership

SpecBulk == InitBulk /\ [][NextBulk]_vars

-----------------------------------------------------------------------------
(* Claims about authenticate and optionalAuthenticate (SpecAuthn) *)

\* which of the six checks of authenticate is the first to fail on request rq
\* against store d (0: none fails), stated on the raw facts
FirstFailingCheck(rq, d) ==
    LET h == rq.headers.authorization
        wellFormed == Len(h) >= 3 /\ h[1] = Word("Bearer") /\ h[2] = SP
                      /\ \A i \in 3..Len(h) : h[i] # SP
        c1 == wellFormed /\ Len(h) >= 3
        jwtOk == c1 /\ Len(h) = 3 /\ DOMAIN h[3] = {"jwt"}
                 /\ h[3].jwt.key = env.JWT_SECRET /\ h[3].jwt.exp > clock
                 /\ h[3].jwt.aud = AUDIENCE /\ h[3].jwt.iss = ISSUER
        uid == IF jwtOk THEN h[3].jwt.payload.userId ELSE NULL
        us  == { u \in d.users : u.id = uid }
    IN  IF ~c1 THEN 1
        ELSE IF ~jwtOk THEN 2
        ELSE IF us = {} THEN 3
        ELSE IF \E u \in us : ~u.isActive THEN 4
        ELSE IF ~\E u \in us : \E i \in d.institutions :
                    i.id = u.institutionId /\ i.status = "active" THEN 5
        ELSE IF ~\E k \in 1..Len(d.userRoles) : d.userRoles[k].userId = uid THEN 6
        ELSE 0

\* C3: authenticate evaluates token present, token verifies, principal exists,
\* principal active, institution active, role assigned in that order; the first
\* failing check alone decides the outcome (401 for checks 1-4, 403 for 5-6, no
\* next, req.user unset); only when all six pass is req.user set and next called.
C3_AuthenticateOrder ==
    last.op = "authenticate" =>
        LET f == FirstFailingCheck(last.pre, last.db) IN
        /\ f = 1 => last.status = HTTP_UNAUTHORIZED /\ last.events = <<"missing_token">>
        /\ f = 2 => last.status = HTTP_UNAUTHORIZED /\ last.events = <<"invalid_token">>
        /\ f = 3 => last.status = HTTP_UNAUTHORIZED /\ last.events = <<"user_not_found">>
        /\ f = 4 => last.status = HTTP_UNAUTHORIZED /\ last.events = <<"user_inactive">>
        /\ f = 5 => last.status = HTTP_FORBIDDEN /\ last.events = <<"institution_inactive">>
        /\ f = 6 => last.status = HTTP_FORBIDDEN /\ last.events = <<"no_active_role">>
        /\ f # 0 => ~last.next /\ req.user = None /\ req = last.pre
                    /\ Len(res) = 1 /\ res[1].status = last.status
        /\ f = 0 => /\ last.next /\ last.status = NoResponse /\ res = <<>>
                    /\ req.user # None
                    /\ The(req.user).id = last.pre.headers.authorization[3].jwt.payload.userId

\* an inactive principal of a non-active institution without roles is answered
\* by check 4 (401, user inactive), not by check 5 or 6
C3_Witness ==
    /\ last.op = "authenticate"
    /\ FirstFailingCheck(last.pre, last.db) = 4
    /\ last.status = HTTP_UNAUTHORIZED
    /\ \A i \in last.db.institutions : i.status # "active"
    /\ last.db.userRoles = <<>>

\* C5: optionalAuthenticate always proceeds to the next handler and never sends
\* an error response, whatever the token.
C5_OptionalAlwaysProceeds ==
    last.op = "optionalAuthenticate" =>
        last.next /\ last.status = NoResponse /\ res = <<>>

-----------------------------------------------------------------------------
(* Claims about the tenant middleware (SpecTenant) *)

\* the institution a resource row belongs to, by the schema's relations
OwnerInstitution(d, resourceModel, id) ==
    LET careerInst(cid)  == { c.institutionId : c \in findUniqueById(d.careers, cid) }
        courseInst(cid)  == UNION { careerInst(c.careerId)
                                    : c \in findUniqueById(d.courses, cid) }
        subjectInst(sid) == UNION { courseInst(x.courseId)
                                    : x \in findUniqueById(d.subjects, sid) }
    IN  CASE resourceModel = "student" ->
               { r.institutionId : r \in findUniqueById(d.students, id) }
          [] resourceModel = "career" -> careerInst(id)
          [] resourceModel = "teacher" ->
               UNION { { u.institutionId : u \in findUniqueById(d.users, t.userId) }
                       : t \in findUniqueById(d.teachers, id) }
          [] resourceModel = "course" -> courseInst(id)
          [] resourceModel = "subject" -> subjectInst(id)
          [] resourceModel = "virtualClassroom" ->
               UNION { subjectInst(v.subjectId)
                       : v \in findUniqueById(d.virtualClassrooms, id) }

\* C1: for every supported resource kind and resource id, validateResourceOwnership
\* denies (403, next not called) when the resource's institution differs from the
\* request's institution and allows (calls next) when they are equal.
C1_TenantIsolation ==
    ( /\ last.op = "validateResourceOwnership"
      /\ last.args[1] \in ResourceModels
      /\ last.pre.user # None
      /\ Truthy(last.pre.institutionId)
      /\ Truthy(last.pre.params.id)
      /\ OwnerInstitution(last.db, last.args[1], last.pre.params.id) # None )
    => LET owner == The(OwnerInstitution(last.db, last.args[1], last.pre.params.id))
       IN  /\ owner # last.pre.institutionId =>
                last.status = HTTP_FORBIDDEN /\ ~last.next
           /\ owner = last.pre.institutionId =>
                last.next /\ last.status = NoResponse

\* the institution a validateTenantAccess call is about: the path parameter,
\* or the principal's own
RequestedInstitution(rq) ==
    IF rq.params.institutionId \notin {NULL, ""} THEN rq.params.institutionId
    ELSE The(rq.user).institutionId

\* C2: validateTenantAccess never lets a request through to another tenant: ids
\* differ => 403, no next, req.tenant unset; institution missing => 400; status
\* not 'active' => 403; next called => req.tenant.id = req.institutionId =
\* req.user.institutionId and req.tenant.status = 'active'.
C2_TenantAccess ==
    (last.op = "validateTenantAccess" /\ last.pre.user # None) =>
        LET want == RequestedInstitution(last.pre)
            mine == The(last.pre.user).institutionId
            rows == { i \in last.db.institutions : i.id = want }
        IN  /\ want # mine =>
                 last.status = HTTP_FORBIDDEN /\ ~last.next /\ req.tenant = None
            /\ (want = mine /\ rows = {}) =>
                 last.status = HTTP_BAD_REQUEST /\ ~last.next
            /\ (want = mine /\ \E i \in rows : i.status # "active") =>
                 last.status = HTTP_FORBIDDEN /\ ~last.next
            /\ last.next =>
                 /\ req.tenant # None
                 /\ The(req.tenant).id = req.institutionId
                 /\ req.institutionId = The(req.user).institutionId
                 /\ The(req.tenant).status = "active"

\* a principal of one institution asks for the other, existing and active one
C2_Witness ==
    /\ last.op = "validateTenantAccess"
    /\ last.pre.user # None
    /\ RequestedInstitution(last.pre) # The(last.pre.user).institutionId
    /\ \E i \in last.db.institutions :
          i.id = RequestedInstitution(last.pre) /\ i.status = "active"
    /\ last.status = HTTP_FORBIDDEN
    /\ req.tenant = None

-----------------------------------------------------------------------------
(* Claims about the plan limits (SpecPlan) *)

\* the rows of a quota-gated kind that belong to an institution, by the
\* schema's relations (certificates: those issued in the current month)
CurrentCount(d, resourceType, institutionId, now) ==
    IF resourceType = "certificate"
    THEN Cardinality({ c \in d.certificates :
                         /\ OwnerInstitution(d, "student", c.studentId) = {institutionId}
                         /\ c.issuedAt \div TicksPerMonth = now \div TicksPerMonth })
    ELSE Cardinality({ r \in TableOf(d, resourceType) :
                         OwnerInstitution(d, resourceType, r.id) = {institutionId} })

\* the limit of the plan row that matches the kind
MatchingLimit(plan, resourceType) ==
    CASE resourceType = "student" -> plan.studentLimit
      [] resourceType = "teacher" -> plan.teacherLimit
      [] resourceType = "course" -> plan.courseLimit
      [] resourceType = "virtualClassroom" -> plan.virtualClassroomLimit
      [] resourceType = "certificate" -> plan.certificateMonthly

\* C4: with a plan present, a create request on a quota-gated kind passes
\* checkPlanLimits iff the plan's matching limit is -1 or the institution's count
\* is strictly below it (otherwise 403); any other action always passes without
\* counting.
C4_PlanLimit ==
    last.op = "checkPlanLimits" =>
        /\ last.args[2] # "create" => last.next /\ last.queries = <<>>
        /\ ( /\ last.args[2] = "create"
             /\ last.args[1] \in GatedResources
             /\ last.pre.abac # None
             /\ last.db.plans # {} /\ The(last.pre.abac).plan # None )
           => LET inst  == The(last.pre.abac).institution.id
                  limit == MatchingLimit(The(last.db.plans), last.args[1])
                  count == CurrentCount(last.db, last.args[1], inst, clock)
              IN  /\ last.next <=> (limit = -1 \/ count < limit)
                  /\ ~last.next => last.status = HTTP_FORBIDDEN

\* the count has reached a positive limit exactly: the create is denied
C4_Witness ==
    /\ last.op = "checkPlanLimits"
    /\ last.args[2] = "create"
    /\ last.args[1] \in GatedResources
    /\ last.pre.abac # None
    /\ The(last.pre.abac).plan # None
    /\ LET limit == MatchingLimit(The(last.db.plans), last.args[1])
           count == CurrentCount(last.db, last.args[1], "i1", clock)
       IN  limit >= 1 /\ count = limit
    /\ last.status = HTTP_FORBIDDEN

\* the numeric limit that a feature check reads
FeatureLimit(plan, feature) ==
    CASE feature = "ai_teacher" -> plan.aiTeacherCallsMonthly
      [] feature = "ai_student" -> plan.aiStudentMinutesMonthly
      [] feature = "certificates" -> plan.certificateMonthly

\* C15: a limit of -1 means unlimited wherever it is read: checkPlanFeature
\* passes 'ai_teacher', 'ai_student' and 'certificates' when the matching
\* limit is -1, and checkPlanLimits never denies a create of a kind whose
\* limit is -1.
C15_MinusOneUnlimited ==
    /\ ( /\ last.op = "checkPlanFeature"
         /\ last.args[1] \in {"ai_teacher", "ai_student", "certificates"}
         /\ last.pre.abac # None
         /\ The(last.pre.abac).plan # None
         /\ FeatureLimit(The(The(last.pre.abac).plan), last.args[1]) = -1 )
       => last.next
    /\ ( /\ last.op = "checkPlanLimits"
         /\ last.args[2] = "create"
         /\ last.args[1] \in GatedResources
         /\ last.pre.abac # None
         /\ The(last.pre.abac).plan # None
         /\ MatchingLimit(The(The(last.pre.abac).plan), last.args[1]) = -1 )
       => last.next

TenantWithoutPlan(d, abac) ==
    \E i \in d.institutions :
        /\ i.id = The(abac).institution.id
        /\ ~\E pl \in d.plans : pl.id = i.planId

\* C17: for a tenant without plan the ABAC context has no plan, and then
\* checkPlanLimits answers 403 to every create of a quota-gated kind and
\* checkPlanFeature 403 to every feature, whatever the role.
C17_NoPlanDeniesAll ==
    /\ ( last.op = "setupABACContext" /\ last.next /\ TenantWithoutPlan(last.db, req.abac) )
       => The(req.abac).plan = None
    /\ ( /\ last.op = "checkPlanLimits"
         /\ last.pre.abac # None /\ TenantWithoutPlan(last.db, last.pre.abac)
         /\ last.args[2] = "create" /\ last.args[1] \in GatedResources )
       => ~last.next /\ last.status = HTTP_FORBIDDEN
    /\ ( /\ last.op = "checkPlanFeature"
         /\ last.pre.abac # None /\ TenantWithoutPlan(last.db, last.pre.abac) )
       => ~last.next /\ last.status = HTTP_FORBIDDEN

\* an ADMIN of a tenant without plan was refused the creation of a student
C17_Witness ==
    /\ last.op = "checkPlanLimits"
    /\ last.pre.abac # None
    /\ TenantWithoutPlan(last.db, last.pre.abac)
    /\ The(last.pre.abac).user.roleName = "ADMIN"
    /\ last.args = <<"student", "create">>
    /\ last.status = HTTP_FORBIDDEN

\* C18: a create of a kind outside student, teacher, course, virtualClassroom,
\* certificate passes checkPlanLimits whatever the counts and the plan, also
\* when the tenant has no plan.
C18_UnknownKindUngated ==
    ( /\ last.op = "checkPlanLimits"
      /\ last.pre.abac # None
      /\ last.args[2] = "create"
      /\ last.args[1] \notin GatedResources )
    => last.next

\* C20: requireABACPermission decides as the first failing stage of: build
\* the context, role check, plan-limit check, optional feature check.  The
\* handler is reached only if all pass; a role outside allowedRoles is refused
\* before any count query; a refused request gets exactly one response.
C20_CompositeOrder ==
    last.op = "requireABACPermission" =>
        LET rq    == last.pre
            kind  == last.args[1]
            f     == last.args[4]
            hasContext == rq.user # None /\ rq.tenant # None
            roleOk  == The(rq.user).roleName \in last.args[3]
            plan    == { pl \in last.db.plans : pl.id = The(rq.tenant).planId }
            limitOk ==
                \/ last.args[2] # "create"
                \/ /\ plan # None
                   /\ \/ kind \notin GatedResources
                      \/ MatchingLimit(The(plan), kind) = -1
                      \/ CurrentCount(last.db, kind, The(rq.tenant).id, clock)
                           < MatchingLimit(The(plan), kind)
            featureOk == ~Truthy(f) \/ (plan # None /\ FeatureLimit(The(plan), f) > 0)
        IN  /\ last.next <=> (hasContext /\ roleOk /\ limitOk /\ featureOk)
            /\ last.next => res = <<>>
            /\ ~last.next => Len(res) = 1
            /\ ~hasContext => last.status = HTTP_BAD_REQUEST
            /\ (hasContext /\ ~roleOk)
               => /\ last.status = HTTP_FORBIDDEN
                  /\ last.message = "Permisos de rol insuficientes"
                  /\ \A i \in DOMAIN last.queries : last.queries[i] = "plan.findUnique"
            /\ (hasContext /\ roleOk /\ ~limitOk)
               => /\ last.status = HTTP_FORBIDDEN
                  /\ last.message \in { "Plan requerido para esta operacion",
                                        "Limite del plan excedido" }
            /\ (hasContext /\ roleOk /\ limitOk /\ ~featureOk)
               => /\ last.status = HTTP_FORBIDDEN
                  /\ last.message \in { "Plan requerido para esta funcionalidad",
                                        "Generacion de certificados no disponible en su plan" }

\* a role outside allowedRoles asked for a create beyond the plan's limit: the
\* role check answered, and nothing was counted
C20_Witness ==
    /\ last.op = "requireABACPermission"
    /\ last.pre.user # None /\ last.pre.tenant # None
    /\ The(last.pre.user).roleName \notin last.args[3]
    /\ last.args[1] = "student" /\ last.args[2] = "create"
    /\ \E pl \in last.db.plans :
          /\ pl.id = The(last.pre.tenant).planId
          /\ pl.studentLimit >= 0
          /\ CurrentCount(last.db, "student", The(last.pre.tenant).id, clock)
               >= pl.studentLimit
    /\ res = <<[status |-> HTTP_FORBIDDEN, message |-> "Permisos de rol insuficientes"]>>
    /\ last.queries = <<"plan.findUnique">>

-----------------------------------------------------------------------------
(* Claims about the auth routes (SpecLogin) *)

\* C7: a failure raised by login or refresh as Unauthorized (401) or Forbidden
\* (403) is answered to the client with that same status.
C7_FailureStatus ==
    ( /\ last.op \in {"login", "refresh"}
      /\ last.error # None
      /\ The(last.error).statusCode \in {HTTP_UNAUTHORIZED, HTTP_FORBIDDEN} )
    => last.status = The(last.error).statusCode

-----------------------------------------------------------------------------
(* Claims about registration (SpecRegister) *)

Succeeded(p) == p.pc = "done" /\ p.raised = None /\ p.response # None
                /\ The(p.response).status = HTTP_CREATED

Failed(p) == p.pc = "done" /\ ~Succeeded(p)

Assignments(d, userId) ==
    { i \in 1..Len(d.userRoles) : d.userRoles[i].userId = userId }

\* nothing of the user is in the store
Absent(d, userId) ==
    /\ ~\E u \in d.users : u.id = userId
    /\ Assignments(d, userId) = {}
    /\ ~\E r \in d.students \cup d.teachers \cup d.tutorProfiles : r.userId = userId

\* the user, its one primary assignment and exactly the profile of its role
Complete(d, userId, roleName) ==
    /\ \E u \in d.users : u.id = userId
    /\ Cardinality(Assignments(d, userId)) = 1
    /\ \A i \in Assignments(d, userId) : d.userRoles[i].isPrimary
    /\ (\E r \in d.students : r.userId = userId) <=> roleName = "STUDENT"
    /\ (\E r \in d.teachers : r.userId = userId) <=> roleName = "TEACHER"
    /\ (\E r \in d.tutorProfiles : r.userId = userId) <=> roleName = "TUTOR"

\* C6: a registration with an unused email, an active institution, the role
\* STUDENT and a password of 8+ characters with an uppercase letter, a lowercase
\* letter and a digit but no special character succeeds: 201, roleName STUDENT,
\* a token pair, and a Student row of the new user.
C6_PlainPasswordRegisters ==
    \A c \in DOMAIN procs :
        LET p == procs[c]
        IN  ( /\ p.pc = "done"
              /\ registerSchema(p.data)
              /\ Range(p.data.password) \cap SpecialChars = {}
              /\ p.data.roleName = "STUDENT"
              /\ \E i \in db.institutions :
                    i.id = p.data.institutionId /\ i.status = "active"
              /\ p.passedLookup
              /\ p.raised # None => The(p.raised).kind = "AppError" )
            => /\ The(p.response).status = HTTP_CREATED
               /\ The(p.response).data # None
               /\ The(The(p.response).data).user.roleName = "STUDENT"
               /\ \E s \in db.students : s.userId = p.userId

\* C8: register is atomic: at every moment the store holds, of each call's
\* user, either the User row, its one primary RoleAssignment and the profile row
\* of its role, or nothing; a call that returned left all of them, a call that
\* failed left none.
C8_RegisterAtomic ==
    \A c \in DOMAIN procs :
        LET p == procs[c]
        IN  /\ Complete(db, p.userId, p.data.roleName) \/ Absent(db, p.userId)
            /\ Succeeded(p) => Complete(db, p.userId, p.data.roleName)
            /\ Failed(p) => Absent(db, p.userId)

\* a call failed after writes of its transaction, and none of them is left,
\* while another call's user is in the store in full
C8_Witness ==
    \E c, o \in DOMAIN procs :
        /\ Failed(procs[c]) /\ procs[c].discarded >= 2
        /\ Absent(db, procs[c].userId)
        /\ Succeeded(procs[o])
        /\ procs[o].data.roleName = "TEACHER"
        /\ Complete(db, procs[o].userId, "TEACHER")

\* C9: whatever the interleaving of concurrent register calls with the same
\* email, the store never holds two User rows with that email, at most one of
\* the calls succeeds, and a call that lost left no row behind.
C9_OneUserPerEmail ==
    /\ \A u, v \in db.users : u.email = v.email => u.id = v.id
    /\ \A c, o \in DOMAIN procs :
          ( c # o /\ procs[c].data.email = procs[o].data.email )
          => /\ ~(Succeeded(procs[c]) /\ Succeeded(procs[o]))
             /\ Failed(procs[c]) => Absent(db, procs[c].userId)

\* two calls with the same email both passed the lookup; one committed, the
\* other met the unique index and left nothing
C9_Witness ==
    \E c, o \in DOMAIN procs :
        /\ c # o
        /\ procs[c].data.email = procs[o].data.email
        /\ procs[c].passedLookup /\ procs[o].passedLookup
        /\ Succeeded(procs[c])
        /\ Failed(procs[o])
        /\ The(procs[o].raised).code = "P2002"
        /\ Absent(db, procs[o].userId)
        /\ Cardinality({ u \in db.users : u.email = procs[c].data.email }) = 1

\* the call was rejected because its email is in use: by the lookup, or by
\* the unique index during the transaction
RejectedAsDuplicate(p) ==
    /\ p.pc = "done"
    /\ p.raised # None
    /\ \/ The(p.raised).message = "El email ya esta registrado"
       \/ The(p.raised).code = "P2002"

\* C10: a registration rejected because the email is already in use is answered
\* with 409, whether the lookup or the unique index detected the duplicate.
C10_DuplicateIsConflict ==
    \A c \in DOMAIN procs :
        RejectedAsDuplicate(procs[c]) => The(procs[c].response).status = HTTP_CONFLICT

\* the three credential failures of a login: (a) no principal has the email,
\* (b) an active principal of an active institution without password, (c) such
\* a principal with another password than the one sent
CredentialCase(body, d) ==
    LET found == findUserByEmail(d, body.email)
    IN  IF found = None THEN "a"
        ELSE IF /\ The(found).isActive
                /\ institutionOf(d, The(found)) # None
                /\ The(institutionOf(d, The(found))).status = "active"
             THEN IF The(found).password = None THEN "b"
                  ELSE IF The(The(found).password).bcrypt # body.password THEN "c"
                  ELSE "-"
             ELSE "-"

\* C11: a login that fails for an unknown email, for a missing password or
\* for a wrong password throws the same error (kind, status, message) and gets the
\* same answer as a login with an email of no principal on the same store, and
\* no tokens are issued.
C11_LoginIndistinguishable ==
    ( /\ last.op = "login"
      /\ last.args[1].email # "" /\ last.args[1].password # <<>>
      /\ CredentialCase(last.args[1], last.db) \in {"a", "b", "c"} )
    => LET unknown == loginRoute([email |-> "nobody", password |-> last.args[1].password],
                                 last.db, env, clock)
       IN  /\ unknown.error # None
           /\ last.error = unknown.error
           /\ The(last.error).statusCode = HTTP_UNAUTHORIZED
           /\ last.status = unknown.status
           /\ last.message = unknown.message
           /\ last.data = None

\* a principal without password that is otherwise able to log in was refused
C11_Witness ==
    /\ last.op = "login"
    /\ last.args[1].password # <<>>
    /\ CredentialCase(last.args[1], last.db) = "b"
    /\ userRolesOf(last.db, "u1") # <<>>
    /\ last.error # None
    /\ last.data = None

\* the refresh token is one that jwt.verify accepts at the given time
RefreshTokenValid(tokenString, e, now) ==
    /\ IsJwtString(tokenString)
    /\ tokenString[1].jwt.key = e.JWT_REFRESH_SECRET
    /\ tokenString[1].jwt.exp > now
    /\ tokenString[1].jwt.iss = ISSUER
    /\ tokenString[1].jwt.aud = AUDIENCE

\* the principal of the token exists, is active, and so is its institution
PrincipalUsable(d, userId) ==
    \E u \in d.users :
        /\ u.id = userId
        /\ u.isActive
        /\ \E i \in d.institutions : i.id = u.institutionId /\ i.status = "active"

\* C12: refreshTokens fails with Unauthorized (401) and issues no tokens
\* whenever the refresh token is invalid or expired, or its principal is missing
\* or inactive, or the principal's institution is not active.
C12_RefreshUnauthorized ==
    ( /\ last.op = "refresh"
      /\ last.args[1].refreshToken # <<>>
      /\ \/ ~RefreshTokenValid(last.args[1].refreshToken, env, clock)
         \/ ~PrincipalUsable(last.db, last.args[1].refreshToken[1].jwt.payload.userId) )
    => /\ last.error # None
       /\ The(last.error).statusCode = HTTP_UNAUTHORIZED
       /\ last.data = None

-----------------------------------------------------------------------------
(* Claims about sessions (SpecSession) *)

\* the active role by the stored assignments: the one marked primary (the
\* first such), otherwise the first, none if there is no assignment
ExpectedRole(d, userId) ==
    LET rows == SelectSeq(d.userRoles, LAMBDA ur : ur.userId = userId)
        prim == SelectSeq(rows, LAMBDA ur : ur.isPrimary)
    IN  IF prim # <<>> THEN Some(prim[1])
        ELSE IF rows # <<>> THEN Some(rows[1])
        ELSE None

RoleNameOf(d, roleId) == (CHOOSE r \in d.roles : r.id = roleId).name

AccessPayload(pair) == pair.accessToken[1].jwt.payload

\* C13: login, refresh and authenticate take the active role from the
\* assignments stored at the time of the call (primary, else first); without
\* assignment none of them succeeds.  So a refresh with a token issued while
\* the role was TEACHER gives roleName DIRECTOR once DIRECTOR is primary.
C13_ActiveRoleIsCurrent ==
    /\ ( last.op \in {"login", "refresh"} /\ last.data # None )
       => LET payload  == AccessPayload(The(tokensIn(last.data)))
              expected == ExpectedRole(last.db, payload.userId)
          IN  /\ expected # None
              /\ payload.roleId = The(expected).roleId
              /\ payload.roleName = RoleNameOf(last.db, The(expected).roleId)
    /\ ( last.op = "authenticate" /\ last.next )
       => LET expected == ExpectedRole(last.db, The(req.user).id)
          IN  /\ expected # None
              /\ The(req.user).roleId = The(expected).roleId
              /\ The(req.user).roleName = RoleNameOf(last.db, The(expected).roleId)

\* a refresh token issued to a TEACHER has been refreshed into a DIRECTOR token
C13_Witness ==
    /\ last.op = "refresh"
    /\ last.data # None
    /\ AccessPayload(The(tokensIn(last.data))).roleName = "DIRECTOR"
    /\ \E t \in issued :
          /\ t.refreshToken = last.args[1].refreshToken
          /\ AccessPayload(t).roleName = "TEACHER"

AccessTokenValid(tokenString, e, now) ==
    /\ IsJwtString(tokenString)
    /\ tokenString[1].jwt.key = e.JWT_SECRET
    /\ tokenString[1].jwt.exp > now
    /\ tokenString[1].jwt.iss = ISSUER
    /\ tokenString[1].jwt.aud = AUDIENCE

\* the principal exists and is inactive, or its institution is not active
Deactivated(d, userId) ==
    \E u \in d.users :
        /\ u.id = userId
        /\ \/ ~u.isActive
           \/ ~\E i \in d.institutions : i.id = u.institutionId /\ i.status = "active"

\* the access token of a request "Authorization: Bearer <token>", or <<>>
BearerToken(rq) ==
    IF Len(rq.headers.authorization) = 3
       /\ SubSeq(rq.headers.authorization, 1, 2) = <<Word("Bearer"), SP>>
    THEN <<rq.headers.authorization[3]>>
    ELSE <<>>

\* C14: while a principal is inactive or its institution is not active,
\* authenticate with any unexpired access token of it and refresh with any
\* unexpired refresh token of it are denied, whenever the token was issued.
C14_DeactivationImmediate ==
    /\ ( /\ last.op = "authenticate"
         /\ AccessTokenValid(BearerToken(last.pre), env, clock)
         /\ Deactivated(last.db, BearerToken(last.pre)[1].jwt.payload.userId) )
       => /\ ~last.next
          /\ last.status \in {HTTP_UNAUTHORIZED, HTTP_FORBIDDEN}
          /\ req = last.pre
    /\ ( /\ last.op = "refresh"
         /\ RefreshTokenValid(last.args[1].refreshToken, env, clock)
         /\ Deactivated(last.db, last.args[1].refreshToken[1].jwt.payload.userId) )
       => /\ last.data = None
          /\ last.error # None

\* an access token handed out by a login, still unexpired, is refused after
\* the institution was suspended
C14_Witness ==
    /\ last.op = "authenticate"
    /\ AccessTokenValid(BearerToken(last.pre), env, clock)
    /\ \E t \in issued : t.accessToken = BearerToken(last.pre)
    /\ \E u \in last.db.users : u.id = "u1" /\ u.isActive
    /\ Deactivated(last.db, "u1")
    /\ ~last.next
    /\ last.status = HTTP_FORBIDDEN

-----------------------------------------------------------------------------
(* Claims about evaluateAccess (SpecAccess) *)

\* C19: evaluateAccess is true for ADMIN; else true for a create with a plan
\* present; else for 'student' iff the role is SECRETARY or DIRECTOR, for
\* 'teacher' iff DIRECTOR, for 'grade' iff DIRECTOR or TEACHER; false for
\* every other resource kind.
C19_EvaluateAccess ==
    last.op = "evaluateAccess" =>
        LET role == last.args[1].user.roleName
            kind == last.args[2]
        IN  The(last.data) =
              ( \/ role = "ADMIN"
                \/ last.args[3] = "create" /\ last.args[1].plan # None
                \/ kind = "student" /\ role \in {"SECRETARY", "DIRECTOR"}
                \/ kind = "teacher" /\ role = "DIRECTOR"
                \/ kind = "grade" /\ role \in {"DIRECTOR", "TEACHER"} )

\* a create without plan by a role outside the allow-list of the kind is refused
C19_Witness ==
    /\ last.op = "evaluateAccess"
    /\ last.args[1].user.roleName = "TEACHER"
    /\ last.args[1].plan = None
    /\ last.args[2] = "student"
    /\ last.args[3] = "create"
    /\ The(last.data) = FALSE

-----------------------------------------------------------------------------
(* Claims about the request pipeline (SpecPipeline) *)

\* C21: no stage produces its context before its predecessor has: a request
\* with institutionId or tenant has a principal, a request with an ABAC
\* context has principal and tenant; a tenant stage without principal and the
\* ABAC stage without principal or tenant answer 400 and do not call next.
C21_StageOrder ==
    /\ (Truthy(req.institutionId) \/ req.tenant # None) => req.user # None
    /\ req.abac # None => (req.user # None /\ req.tenant # None)
    /\ ( last.op \in {"setTenantContext", "validateTenantAccess"}
         /\ last.pre.user = None )
       => (last.status = HTTP_BAD_REQUEST /\ ~last.next /\ req = last.pre)
    /\ ( last.op = "setupABACContext"
         /\ (last.pre.user = None \/ last.pre.tenant = None) )
       => (last.status = HTTP_BAD_REQUEST /\ ~last.next /\ req = last.pre)

\* the ABAC stage ran on a request with a principal but no tenant and refused
C21_Witness ==
    /\ last.op = "setupABACContext"
    /\ last.pre.user # None
    /\ last.pre.tenant = None
    /\ last.status = HTTP_BAD_REQUEST
    /\ req.abac = None

\* C22: when authenticate and setTenantContext both succeed on a request,
\* setupABACContext, run next, builds the ABAC context and calls next.
C22_TenantAvailableToABAC ==
    ( /\ last.op = "tenantPipeline"
      /\ LET a == authenticate(last.pre, last.db, env, clock)
         IN  a.next /\ setTenantContext(a.req).next )
    => (last.next /\ req.abac # None)

-----------------------------------------------------------------------------
(* Claims about validateBulkOwnership (SpecBulk) *)

\* every id of the list is the id of a row of the model in the institution
EveryIdOwned(d, model, ids, institutionId) ==
    \A k \in 1..Len(ids) :
        \E r \in TableOf(d, model) :
            /\ r.id = ids[k]
            /\ "institutionId" \in DOMAIN r
            /\ r.institutionId = institutionId

\* C23: validateBulkOwnership returns true iff every id of the list resolves
\* to a row of the given institution, for every list (empty, with repeated
\* ids), and false when the count query fails.
C23_BulkOwnership ==
    last.op = "validateBulkOwnership" =>
        LET m == last.args[1]  ids == last.args[2]
            i == last.args[3]  fails == last.args[4]
        IN  /\ fails => The(last.data) = FALSE
            /\ (~fails /\ m \in ModelsWithInstitutionId) =>
                   (The(last.data) = EveryIdOwned(last.db, m, ids, i))

-----------------------------------------------------------------------------
(* Claims about the writes of login and authenticate (SpecLogin) *)

\* the login passes every check: a principal has the email, it is active, its
\* institution is active, the password is its password, it has a role
PassesEveryCheck(body, d) ==
    \E u \in d.users :
        /\ u.email = body.email
        /\ PrincipalUsable(d, u.id)
        /\ u.password # None
        /\ The(u.password).bcrypt = body.password
        /\ \E k \in 1..Len(d.userRoles) : d.userRoles[k].userId = u.id

\* the store with lastLogin of the principal of that email set
WithLastLogin(d, email, now) ==
    [d EXCEPT !.users =
        { IF u.email = email THEN [u EXCEPT !.lastLogin = Some(now)] ELSE u : u \in @ }]

-----------------------------------------------------------------------------
(* Claims about changePassword, logout and the tokens (SpecAccount) *)

\* the stored password hash of a user, as an option
StoredHash(d, userId) ==
    UNION { u.password : u \in { v \in d.users : v.id = userId } }

\* the principal of the request's bearer token
TokenUser(rq) == BearerToken(rq)[1].jwt.payload.userId

\* C25: changePassword replaces the stored hash only when the current password
\* sent verifies against the stored hash and the new password passes
\* validatePassword; every failing path leaves the store as it was; after a
\* success login accepts the new password and rejects the old one, if another.
C25_ChangePassword ==
    last.op = "changePassword" =>
      LET body == last.args[1]
      IN  IF last.status = HTTP_OK
          THEN LET uid == TokenUser(last.pre)
                   old == StoredHash(last.db, uid)
               IN  /\ old = { [bcrypt |-> body.currentPassword] }
                   /\ validatePassword(body.newPassword).isValid
                   /\ db = setPassword(last.db, uid, { [bcrypt |-> body.newPassword] })
                   /\ \E u \in db.users :
                         /\ u.id = uid
                         /\ loginUser([email |-> u.email, password |-> body.newPassword],
                                      db, env, clock).ok
                         /\ body.newPassword # body.currentPassword =>
                               LET r == loginUser([email |-> u.email,
                                                   password |-> body.currentPassword],
                                                  db, env, clock)
                               IN  ~r.ok /\ The(r.error).statusCode = HTTP_UNAUTHORIZED
          ELSE db = last.db

\* the principal replaced its password by another one
C25_Witness ==
    /\ last.op = "changePassword"
    /\ last.status = HTTP_OK
    /\ last.args[1].currentPassword = StrongPassword
    /\ StoredHash(last.db, "u1") = { [bcrypt |-> StrongPassword] }
    /\ StoredHash(db, "u1") = { [bcrypt |-> OtherPassword] }

\* C26: no operation invalidates an issued token: whatever happened since it
\* was issued (a password change, a logout, a refresh), an unexpired access
\* token of an active principal of an active institution passes authenticate,
\* and an unexpired refresh token of it is answered by new tokens.
C26_TokensOutliveOperations ==
    /\ ( /\ last.op = "authenticate"
         /\ \E t \in issued : t.accessToken = BearerToken(last.pre)
         /\ AccessTokenValid(BearerToken(last.pre), env, clock)
         /\ PrincipalUsable(last.db, TokenUser(last.pre)) )
       => /\ last.next
          /\ req.user # None
          /\ The(req.user).id = TokenUser(last.pre)
    /\ ( /\ last.op \in {"logout", "changePassword"}
         /\ \E t \in issued : t.accessToken = BearerToken(last.pre)
         /\ AccessTokenValid(BearerToken(last.pre), env, clock)
         /\ PrincipalUsable(last.db, TokenUser(last.pre)) )
       => last.status # HTTP_UNAUTHORIZED /\ last.status # HTTP_FORBIDDEN
    /\ ( /\ last.op = "refresh"
         /\ \E t \in issued : t.refreshToken = last.args[1].refreshToken
         /\ RefreshTokenValid(last.args[1].refreshToken, env, clock)
         /\ PrincipalUsable(last.db, last.args[1].refreshToken[1].jwt.payload.userId) )
       => last.data # None /\ last.status = HTTP_OK

\* an access token issued before the password was changed passes authenticate
C26_Witness ==
    /\ last.op = "authenticate"
    /\ last.next
    /\ StoredHash(last.db, "u1") = { [bcrypt |-> OtherPassword] }
    /\ BearerToken(last.pre) =
         generateTokenPair(Payload("u1", "i1", "r-teacher", "TEACHER", "e1"),
                           Env0, Now0).accessToken

-----------------------------------------------------------------------------
(* Claims about requestPasswordReset (SpecReset) *)

\* the calls that ended, by the principal their email belongs to
CallsForInactive ==
    { c \in issued : \E u \in db.users : u.email = c.email /\ ~u.isActive }

CallsForActive ==
    { c \in issued : \E u \in db.users : u.email = c.email /\ u.isActive }

CallsForNobody ==
    { c \in issued : c.email # "" /\ ~\E u \in db.users : u.email = c.email }

\* what the caller can observe of a call but the time it ended at
SameShape(c1, c2) ==
    /\ c1.ok = c2.ok
    /\ c1.response.status = c2.response.status
    /\ c1.response.message = c2.response.message
    /\ (c1.result = None) = (c2.result = None)
    /\ (c1.response.data = None) = (c2.response.data = None)
    /\ c1.response.data # None =>
          DOMAIN The(c1.response.data) = DOMAIN The(c2.response.data)

\* C27: requestPasswordReset for the email of an inactive principal and for an
\* email of nobody take the same fixed delay, return the same result and
\* response (equal when the calls end at the same time), and write nothing.
C27_InactiveLikeUnknown ==
    /\ \A c \in CallsForInactive \cup CallsForNobody :
          c.delayMs = resetDelayMs /\ ~c.wrote /\ c.ok
    /\ \A c1 \in CallsForInactive : \A c2 \in CallsForNobody :
          /\ c1.delayMs = c2.delayMs
          /\ SameShape(c1, c2)
          /\ The(c1.result).resetToken = The(c2.result).resetToken
          /\ c1.at = c2.at => (c1.result = c2.result /\ c1.response = c2.response)

\* a call for the inactive principal and a call for nobody have both ended
C27_Witness ==
    /\ CallsForInactive # {}
    /\ CallsForNobody # {}
    /\ \E c1 \in CallsForInactive : \E c2 \in CallsForNobody : c1.at = c2.at

\* C28: a reset request for the email of an active principal and one for an
\* email of nobody take the same delay before the answer and get a service
\* result and an HTTP response of the same shape.
C28_ActiveLikeUnknown ==
    \A c1 \in CallsForActive : \A c2 \in CallsForNobody :
        (c1.ok /\ c2.ok) => (c1.delayMs = c2.delayMs /\ SameShape(c1, c2))

\* the keys requestPasswordReset writes
ResetFields == {"passwordResetToken", "passwordResetExpires"}

\* the call for the principal that ended last with a token
LatestReset(email) ==
    CHOOSE c \in issued :
        /\ c.email = email /\ c.found /\ c.ok
        /\ \A o \in issued : (o.email = email /\ o.found /\ o.ok) => o.n <= c.n

\* C29: after any calls of requestPasswordReset for an active principal, the
\* principal stores exactly the token returned by the call that ended last,
\* with an expiry 15 minutes after that call; no token of an earlier call is
\* stored.
C29_OneResetToken ==
    \A u \in db.users :
        LET calls == { c \in issued : c.email = u.email /\ c.found /\ c.ok }
        IN  IF calls = {} THEN DOMAIN u.attributes \cap ResetFields = {}
            ELSE LET c == LatestReset(u.email)
                 IN  /\ ResetFields \subseteq DOMAIN u.attributes
                     /\ u.attributes.passwordResetToken = The(c.result).resetToken
                     /\ u.attributes.passwordResetExpires = c.at + TicksPerQuarterHour
                     /\ The(c.result).expiresAt = c.at + TicksPerQuarterHour
                     /\ \A o \in calls \ {c} :
                           The(o.result).resetToken # u.attributes.passwordResetToken

\* three calls for the active principal have ended, at different times
C29_Witness ==
    /\ Cardinality({ c \in issued : c.email = "e1" /\ c.found /\ c.ok }) = 3
    /\ \E c1, c2 \in issued : c1.email = "e1" /\ c2.email = "e1" /\ c1.at # c2.at

-----------------------------------------------------------------------------
(* Claims about the plan-limit check under concurrency (SpecQuota) *)

QuotaKind == procs["c1"].kind

QuotaLimit == MatchingLimit(The(The(req.abac).plan), QuotaKind)

\* C30: the check and the creation are not atomic.  Each request is decided
\* on the count it read (passes iff the limit is -1 or that count is below the
\* limit), and the institution gets above a limit it started within only with
\* a request that created on a count that had reached the limit since it read.
C30_CountThenCreateRace ==
    /\ req.abac # None
    /\ \A c \in Clients :
          /\ procs[c].pc \in {"create", "done"} =>
                (QuotaLimit = -1 \/ procs[c].read < QuotaLimit)
          /\ procs[c].pc = "denied" =>
                (QuotaLimit # -1 /\ procs[c].read >= QuotaLimit)
    /\ ( /\ QuotaLimit # -1
         /\ CurrentCount(last.db, QuotaKind, "i1", clock) <= QuotaLimit
         /\ CurrentCount(db, QuotaKind, "i1", clock) > QuotaLimit )
       => \E c \in Clients :
             /\ procs[c].pc = "done"
             /\ procs[c].read < QuotaLimit
             /\ procs[c].atCreate >= QuotaLimit

\* from limit - 1 rows, two requests both read limit - 1, both passed and
\* both created: the institution holds limit + 1 rows
C30_Witness ==
    /\ QuotaLimit > 0
    /\ CurrentCount(last.db, QuotaKind, "i1", clock) = QuotaLimit - 1
    /\ CurrentCount(db, QuotaKind, "i1", clock) = QuotaLimit + 1
    /\ \E c1, c2 \in Clients :
          /\ c1 # c2
          /\ procs[c1].pc = "done" /\ procs[c2].pc = "done"
          /\ procs[c1].read = QuotaLimit - 1 /\ procs[c2].read = QuotaLimit - 1

-----------------------------------------------------------------------------
(* Claims about audit events of the authorization stages (SpecTenant) *)

\* the stage answered 401 or 403
Denied == last.op # "none" /\ last.status \in {HTTP_UNAUTHORIZED, HTTP_FORBIDDEN}

\* C31: every denial of an authorization stage emits a named audit event
\* before the response is sent.
C31_DenialsAudited ==
    Denied => Len(last.events) > 0

-----------------------------------------------------------------------------
(* Claims about the two kinds of token (SpecTokens) *)

BearerOf(rq) == extractTokenFromHeader(rq.headers.authorization)

\* C32: under every accepted configuration, no refresh token is accepted as
\* an access token (by verifyAccessToken, and so by authenticate) and no
\* access token as a refresh token (by verifyRefreshToken, and so by
\* POST /refresh).
C32_TokensNotInterchangeable ==
    /\ envSchema(env)
    /\ \A t \in issued :
          /\ ~verifyAccessToken(t.refreshToken, env, clock).ok
          /\ ~verifyRefreshToken(t.accessToken, env, clock).ok
          /\ (last.op = "authenticate" /\ BearerOf(last.pre) = Some(t.refreshToken))
                => (~last.next /\ last.status = HTTP_UNAUTHORIZED)
          /\ (last.op = "refresh" /\ last.args[1].refreshToken = t.accessToken)
                => (last.status # HTTP_OK /\ tokensIn(last.data) = {})

-----------------------------------------------------------------------------
(* Claims about verifyAccessToken (SpecVerify) *)

ExpiredError == [ok |-> FALSE, error |-> "Token expirado", decoded |-> None]

InvalidError == [ok |-> FALSE, error |-> "Token invalido", decoded |-> None]

\* C33: verifyAccessToken of a token generateAccessToken issued returns the
\* issued claims while the token is unexpired and fails with the expired
\* error from its expiry on; it fails with the invalid error, which is not the
\* expired one, for a token whose content was altered after signing (at any
\* time), for one signed with another key (at any time), for one signed for
\* another issuer or audience (while unexpired), and for a malformed one.
C33_AccessTokenRoundTrip ==
    last.op = "verifyAccessToken" =>
       /\ ExpiredError # InvalidError
       /\ last.how = "issued" =>
             IF last.at < last.origin.exp
             THEN /\ last.result.ok
                  /\ last.result.decoded = Some(last.origin.payload)
             ELSE last.result = ExpiredError
       /\ last.how = "altered" => last.result = InvalidError
       /\ (last.how = "elsewhere" /\ last.what = "key") => last.result = InvalidError
       /\ (last.how = "elsewhere" /\ last.what # "key" /\ last.at < last.origin.exp)
             => last.result = InvalidError
       /\ last.how = "garbage" => last.result = InvalidError

\* an issued token was verified after its expiry, and the other issued token,
\* still valid, gives its claims back
C33_Witness ==
    /\ last.op = "verifyAccessToken" /\ last.how = "issued"
    /\ last.at >= last.origin.exp
    /\ last.result = ExpiredError
    /\ \E i \in issued :
          /\ clock < i.exp
          /\ verifyAccessToken(i.token, env, clock).decoded = Some(i.payload)
          /\ verifyAccessToken(alter(i.token, "userId"), env, clock) = InvalidError

\* C33 as stated: the invalid error for every token whose signature, issuer
\* or audience does not match, whatever its expiry.
C33_InvalidWheneverMismatch ==
    (last.op = "verifyAccessToken" /\ last.how \in {"altered", "elsewhere"})
       => last.result = InvalidError

-----------------------------------------------------------------------------
(* Claims about extractTokenFromHeader (SpecHeader) *)

\* 'Bearer', one space, then a token part without spaces
BearerForm(h) ==
    /\ Len(h) >= 2
    /\ h[1] = Word("Bearer")
    /\ h[2] = SP
    /\ \A i \in 3..Len(h) : h[i] # SP

TokenPart(h) == SubSeq(h, 3, Len(h))

MissingToken ==
    /\ last.status = HTTP_UNAUTHORIZED
    /\ last.message = "Token de acceso requerido"
    /\ last.events = <<"missing_token">>
    /\ ~last.next

\* C34: extractTokenFromHeader returns the token part exactly for headers of
\* the form 'Bearer', one space, a token without spaces, and null for every
\* other header (none, another scheme or casing, more or fewer than two
\* parts); authenticate treats null and an empty token part alike, as an
\* absent token.
C34_BearerExtraction ==
    LET h == last.pre.headers.authorization
    IN  /\ last.op = "extractTokenFromHeader" =>
              IF BearerForm(h) THEN last.data = Some(TokenPart(h))
              ELSE last.data = None
        /\ last.op = "authenticate" =>
              (MissingToken <=> (~BearerForm(h) \/ TokenPart(h) = <<>>))

\* 'Bearer ' followed by nothing: the empty token is extracted, and
\* authenticate answers as for an absent token
C34_Witness ==
    /\ last.op = "authenticate"
    /\ last.pre.headers.authorization = <<Word("Bearer"), SP>>
    /\ extractTokenFromHeader(last.pre.headers.authorization) = Some(<<>>)
    /\ MissingToken

-----------------------------------------------------------------------------
(* Claims about the student limit over the public operations (SpecRegister) *)

\* C35: an institution whose plan has studentLimit L >= 0 never holds more
\* than L Student rows, in particular not through the public register
\* operation with roleName STUDENT.
C35_StudentLimitHolds ==
    \A i \in db.institutions : \A plan \in findUniqueById(db.plans, i.planId) :
        plan.studentLimit >= 0 => countStudents(db, i.id) <= plan.studentLimit

-----------------------------------------------------------------------------
(* Claims about the tenant filter (SpecFilter) *)

FilterPassed ==
    last.op \in {"applyTenantFilter", "requireTenantAccess"} /\ last.next

\* C36: after applyTenantFilter calls next, the institution filter of the
\* request is the principal's institution: req.query.institutionId =
\* req.institutionId, also when the query string carried another institution.
C36_FilterIsPrincipalInstitution ==
    FilterPassed => req.query.institutionId = req.institutionId

-----------------------------------------------------------------------------
(* Claims about what requestPasswordReset leaves of the principal (SpecReset) *)

\* the call that ended last was for an active principal and stored its token
ResetStored ==
    /\ last.op = "requestPasswordReset"
    /\ last.status = HTTP_OK
    /\ db # last.db

\* C37: requestPasswordReset for an active principal changes only the two
\* reset fields of the principal's attributes: every other attribute key is
\* still there with its value, and password, isActive and lastLogin are as
\* before.
C37_ResetKeepsOtherAttributes ==
    ResetStored =>
       \A old \in last.db.users : \A new \in db.users :
          old.id = new.id =>
             /\ new.password = old.password
             /\ new.isActive = old.isActive
             /\ new.lastLogin = old.lastLogin
             /\ \A k \in DOMAIN old.attributes \ ResetFields :
                   k \in DOMAIN new.attributes /\ new.attributes[k] = old.attributes[k]

-----------------------------------------------------------------------------
(* Claims about initializeDatabase (SpecDatabase) *)

AttemptFailed(n) == procs.outcomes[n] # "connected"

DatabaseAttempts ==
    /\ procs.attempts <= maxRetries
    /\ \A n \in 1..procs.attempts - 1 : AttemptFailed(n)
    /\ procs.pc = "returned" <=> (procs.attempts >= 1 /\ ~AttemptFailed(procs.attempts))
    /\ procs.pc = "thrown" <=> (procs.attempts = maxRetries /\ AttemptFailed(maxRetries))

DatabaseSleeps ==
    /\ procs.slept = SubSeq(<<2000, 3000, 4500, 6750>>, 1, Len(procs.slept))
    /\ \A i \in 2..Len(procs.slept) : procs.slept[i] = (procs.slept[i - 1] * 3) \div 2
    /\ Len(procs.slept) =
          CASE procs.pc = "connect"  -> procs.attempts
            [] procs.pc = "sleep"    -> procs.attempts - 1
            [] procs.pc = "returned" -> procs.attempts - 1
            [] procs.pc = "thrown"   -> maxRetries - 1

\* C38: initializeDatabase terminates; it makes at most 5 attempts, returns
\* at the first that succeeds, throws after the 5th failure in a row, and
\* sleeps only between attempts, 2000, 3000, 4500 and 6750 ms.
C38_InitializeDatabase ==
    /\ [](DatabaseAttempts /\ DatabaseSleeps)
    /\ <>[](procs.pc \in {"returned", "thrown"})

\* five failures: thrown after four sleeps
C38_Witness ==
    /\ procs.pc = "thrown"
    /\ procs.attempts = 5
    /\ procs.slept = <<2000, 3000, 4500, 6750>>
====
